---- MODULE Spec2Model ----
(***************************************************************************)
(* Session and token lifecycle of the backend: services/auth_service.py,   *)
(* api/routes/secure_auth.py and middleware/security_middleware.py.        *)
(* Time is in whole seconds.  Every store exists twice, as in the source:  *)
(* the in-process dictionaries and the keys of the shared cache (redis),   *)
(* selected by USE_REDIS.                                                  *)
(***************************************************************************)
EXTENDS Integers, FiniteSets, Sequences, TLC

\* ------------------------------------------------------------------ bounds
MaxSessions == 1
MaxTokens == 3
MaxTicks == 1
PwSessions == 2
PwTokens == 4
PwTicks == 1
LockSessions == 1
LockTicks == 1
MaxFailures == 6
GuardTicks == 2
MaxCalls == 7
RateTicks == 2
OutageCalls == 6
OutageTicks == 1
MaxConcurrent == 2
MwTicks == 1
ExpTicks == 2
StrictTicks == 1
RaceTicks == 2
RefreshTokens == 4

\* ------------------------------------------------------- program constants
max_attempts == 5
lockout_seconds == 900
ACCESS_TTL == 15 * 60
REFRESH_TTL == 30 * 24 * 3600
session_duration == 24 * 3600
refresh_duration == 30 * 24 * 3600
AUD == "codegenius-api"
ISS == "codegenius.ai"

\* ------------------------------------------------------------- input sets
Usernames == {"alice", "bob"}
\* A username that no row of the user table has.
UnknownUsers == {"mallory"}
IPs == {"9.9.9.9", "1.2.3.4"}
Identifiers == IPs \cup Usernames \cup UnknownUsers
NoSid == 0

\* The user table behind db.query(User): username -> id.
UserIdOf(username) == IF username = "alice" THEN 1 ELSE IF username = "bob" THEN 2 ELSE 0

\* 'sub': str(user_id) on issue, int(payload['sub']) on use.
StrOf(n) == IF n = 1 THEN "1" ELSE IF n = 2 THEN "2" ELSE "0"
IntOf(s) == IF s = "1" THEN 1 ELSE IF s = "2" THEN 2 ELSE 0

VARIABLES
    now,                  \* the clock, seconds
    ticks,                \* number of clock advances so far (bounded)
    USE_REDIS,            \* auth_service.USE_REDIS
    strict_ip_validation, \* settings.strict_ip_validation
    redis_available,      \* the shared cache answers; when FALSE every redis_client call raises
    session_store,        \* in-process: session_id -> payload
    failed_attempts,      \* in-process: identifier -> count
    revoked_jtis,         \* in-process: set of jti
    redis_session,        \* shared cache "session:<id>" -> [data, expire_at]
    redis_attempts,       \* shared cache "login_attempts:<id>" -> [count, expire_at]
    redis_revoked,        \* shared cache "revoked:jti:<jti>" -> expire_at
    issued,               \* every token the service has signed
    nextSid,              \* next fresh session id
    nextJti,              \* next fresh jti
    last,                 \* the last request and its response
    denied,               \* history: [tok, at] handed to add_jti_to_denylist
    logoutSeen,        \* history: [tok, at, decoded] presented to logout
    loggedOut,            \* history: logouts that presented access, refresh and session id
    pwRevoked,            \* history: sessions removed by change_password
    sessExp,              \* history: session_id -> expires_at of every session created
    expiredSeen,          \* history: sessions on which validate_session ran after expires_at
    bfCount,              \* history: record_failure calls since the last reset
    bfStart,              \* history: time of the first of them, -1 if none
    bfLast,               \* history: time of the last of them, -1 if none
    pairFails,            \* history: failed logins per <<username, ip>>
    pairLast,             \* history: time of the last of them, -1 if none
    MW_USE_REDIS,         \* security_middleware.USE_REDIS
    in_memory_store,      \* in-process: rate key -> [count, window_start]
    redis_rate,           \* shared cache "rate_limit:<type>:<ip>" -> [val, expire_at]
    rlStart,              \* history: time of the first call of the current window, -1 if none
    rlCalls,              \* history: calls made in the current window
    rlDenied,             \* history: keys that have had a call refused
    rl_inflight,          \* _redis_rate_limit calls between their GET and their write
    rlAdmitted,           \* history: interleaved calls allowed, per key
    rf_inflight,          \* record_failure calls between their INCR and their EXPIRE
    rt_inflight,          \* refresh requests between validate_session and issue_access_token
    lg_inflight,          \* login requests between the guard checks and record_failure/reset
    blocked_ips,          \* SecurityMiddleware.blocked_ips
    suspicious_requests,  \* SecurityMiddleware.suspicious_requests: ip -> list of timestamps
    suspLog               \* history: the times of all suspicious requests recorded, per ip

cfgVars == <<USE_REDIS, strict_ip_validation, MW_USE_REDIS, redis_available>>
clockVars == <<now, ticks>>
blockVars == <<blocked_ips, suspicious_requests, suspLog>>
sessVars == <<session_store, redis_session, nextSid, sessExp>>
tokVars == <<issued, nextJti>>
revVars == <<revoked_jtis, redis_revoked, denied, logoutSeen>>
guardVars == <<failed_attempts, redis_attempts, bfCount, bfStart, bfLast, pairFails, pairLast>>
histVars == <<loggedOut, pwRevoked, expiredSeen>>
stepVars == <<rf_inflight, rt_inflight, lg_inflight>>
rateVars == <<in_memory_store, redis_rate, rlStart, rlCalls, rlDenied, rl_inflight, rlAdmitted>>

vars == <<cfgVars, clockVars, blockVars, sessVars, tokVars, revVars, guardVars, histVars, rateVars, stepVars, last>>

\* ------------------------------------------------------------------ values
None == [user_id |-> 0, session_id |-> NoSid, ip_address |-> "", created_at |-> 0,
         expires_at |-> 0, remember_me |-> FALSE, active |-> FALSE]

NoToken == [sub |-> "0", session_id |-> NoSid, type |-> "none", exp |-> 0, iat |-> 0,
            jti |-> 0, aud |-> "", iss |-> "", sig |-> "bad"]

NoLogin == [username |-> "", ip |-> "", password_ok |-> FALSE]

NoLast == [op |-> "none", status |-> 0, detail |-> "", user_id |-> 0, session_id |-> NoSid,
           ip |-> "", tok |-> NoToken, access |-> NoToken, retry_after |-> 0,
           identifier |-> "", password_ok |-> FALSE, attempts |-> 0, blocked |-> FALSE,
           rate_type |-> "", allowed |-> FALSE, allowed_redis |-> FALSE, handled |-> FALSE,
           db_queried |-> FALSE, password_verified |-> FALSE,
           prev_ip |-> "", remember_me |-> FALSE, cookie |-> NoSid]

\* A call on redis_client raises (ConnectionError) when the store in use is the
\* shared cache and the cache is down.
StoreRaises == USE_REDIS /\ ~redis_available

\* ------------------------------------------------------------ TokenCodec
\* (mutant) exp is set to the issue time: the ttl is not added.
create_token_no_ttl(token_type, user_id, session_id, ttl, jti) ==
    [sub |-> StrOf(user_id), session_id |-> session_id, type |-> token_type,
     exp |-> now, iat |-> now, jti |-> jti, aud |-> AUD, iss |-> ISS, sig |-> "ok"]

create_token(token_type, user_id, session_id, ttl, jti) ==
    [sub |-> StrOf(user_id), session_id |-> session_id, type |-> token_type,
     exp |-> now + ttl, iat |-> now, jti |-> jti, aud |-> AUD, iss |-> ISS, sig |-> "ok"]

\* jwt.decode(token, key, algorithms=[...], audience="codegenius-api"):
\* signature, then exp, then aud; no issuer argument, so iss is not looked at.
jwt_decode(tok) ==
    /\ tok # NoToken
    /\ tok.sig = "ok"
    /\ now < tok.exp
    /\ tok.aud = AUD

\* ---------------------------------------------------- RevocationRegistry
is_jti_revoked(jti) ==
    IF USE_REDIS
    THEN jti \in DOMAIN redis_revoked /\ now < redis_revoked[jti]
    ELSE jti \in revoked_jtis

\* (mutant) the entry is given one second less than the token has left.
denylist_ttl_short(exp) ==
    LET ttl == IF exp - now - 1 > 0 THEN exp - now - 1 ELSE 0
    IN IF ttl = 0 THEN 1 ELSE ttl

denylist_ttl(exp) ==
    LET ttl == IF exp - now > 0 THEN exp - now ELSE 0
    IN IF ttl = 0 THEN 1 ELSE ttl

\* add_jti_to_denylist applied to the two registries.
revoked_add(reg, jti) == reg \cup {jti}
redis_revoked_add(reg, jti, exp) ==
    [j \in DOMAIN reg \cup {jti} |-> IF j = jti THEN now + denylist_ttl(exp) ELSE reg[j]]

\* ------------------------------------------------------------ SessionStore
session_get(sid) ==
    IF USE_REDIS
    THEN IF sid \in DOMAIN redis_session /\ now < redis_session[sid].expire_at
         THEN redis_session[sid].data ELSE None
    ELSE IF sid \in DOMAIN session_store THEN session_store[sid] ELSE None

SessionExpired(sid) ==
    LET data == session_get(sid)
    IN ~StoreRaises /\ data # None /\ data.active /\ now > data.expires_at

\* (mutant) the recorded address is not compared.
validate_session_any_ip(sid, ip) ==
    LET data == session_get(sid)
    IN IF StoreRaises THEN None
       ELSE IF data = None \/ ~data.active THEN None
       ELSE IF now > data.expires_at THEN None
       ELSE data

validate_session(sid, ip) ==
    LET data == session_get(sid)
    IN IF StoreRaises THEN None
       ELSE IF data = None \/ ~data.active THEN None
       ELSE IF now > data.expires_at THEN None
       ELSE IF strict_ip_validation /\ data.ip_address # ip THEN None
       ELSE data

Remove(f, k) == [x \in DOMAIN f \ {k} |-> f[x]]

\* (mutants) the record is left in place.
invalidate_mem_keep(store, sid) == store
invalidate_redis_keep(store, sid) == store

\* invalidate_session applied to the two stores.
invalidate_mem(store, sid) == Remove(store, sid)
invalidate_redis(store, sid) == Remove(store, sid)

\* The stores after validate_session(sid, ip): an expired record is removed.
mem_after_validate(sid) ==
    IF ~USE_REDIS /\ SessionExpired(sid) THEN invalidate_mem(session_store, sid) ELSE session_store
redis_after_validate(sid) ==
    IF USE_REDIS /\ SessionExpired(sid) THEN invalidate_redis(redis_session, sid) ELSE redis_session

\* (mutant) the scan stops after the first session of the user.
invalidate_all_mem_first(store, user_id) ==
    LET mine == {x \in DOMAIN store : store[x].user_id = user_id}
    IN IF mine = {} THEN store ELSE Remove(store, CHOOSE x \in mine : \A y \in mine : x <= y)

\* invalidate_all_sessions applied to the two stores.
invalidate_all_mem(store, user_id) ==
    [s \in {x \in DOMAIN store : store[x].user_id # user_id} |-> store[s]]

\* (mutant) every key matching "session:*" is deleted, whoever owns it.
invalidate_all_redis_everyone(store, user_id) == [s \in {} |-> store[s]]

invalidate_all_redis(store, user_id) ==
    [s \in {x \in DOMAIN store : ~(now < store[x].expire_at /\ store[x].data.user_id = user_id)}
       |-> store[s]]

\* (mutant) the record gets the 24 hours whatever remember_me says.
session_payload_day(user_id, sid, ip, remember_me) ==
    [user_id |-> user_id, session_id |-> sid, ip_address |-> ip, created_at |-> now,
     expires_at |-> now + session_duration,
     remember_me |-> remember_me, active |-> TRUE]

session_payload(user_id, sid, ip, remember_me) ==
    [user_id |-> user_id, session_id |-> sid, ip_address |-> ip, created_at |-> now,
     expires_at |-> now + (IF remember_me THEN refresh_duration ELSE session_duration),
     remember_me |-> remember_me, active |-> TRUE]

\* ---------------------------------------------------------- BruteForceGuard
attempts_of(id) ==
    IF USE_REDIS
    THEN IF id \in DOMAIN redis_attempts /\ now < redis_attempts[id].expire_at
         THEN redis_attempts[id].count ELSE 0
    ELSE IF id \in DOMAIN failed_attempts THEN failed_attempts[id] ELSE 0

\* (mutant) the threshold is compared with > instead of >=.
check_gt(id) ==
    [blocked |-> attempts_of(id) > max_attempts,
     attempts |-> attempts_of(id),
     retry_after |-> lockout_seconds]

check(id) ==
    [blocked |-> attempts_of(id) >= max_attempts,
     attempts |-> attempts_of(id),
     retry_after |-> lockout_seconds]

\* record_failure applied to the two stores.
\* (mutant) the counter is set to 1 instead of being incremented.
record_failure_mem_set(fa, id) ==
    [x \in DOMAIN fa \cup {id} |-> IF x = id THEN 1 ELSE fa[x]]

record_failure_mem(fa, id) ==
    [x \in DOMAIN fa \cup {id} |->
        IF x = id THEN (IF id \in DOMAIN fa THEN fa[id] ELSE 0) + 1 ELSE fa[x]]

\* (mutant) a failure is counted only for the usernames that exist.
record_failure_redis_known(ra, id) ==
    IF id \in UnknownUsers THEN ra
    ELSE [x \in DOMAIN ra \cup {id} |->
            IF x = id
            THEN [count |-> (IF id \in DOMAIN ra /\ now < ra[id].expire_at THEN ra[id].count ELSE 0) + 1,
                  expire_at |-> now + lockout_seconds]
            ELSE ra[x]]

record_failure_redis(ra, id) ==
    [x \in DOMAIN ra \cup {id} |->
        IF x = id
        THEN [count |-> (IF id \in DOMAIN ra /\ now < ra[id].expire_at THEN ra[id].count ELSE 0) + 1,
              expire_at |-> now + lockout_seconds]
        ELSE ra[x]]

\* reset applied to the two stores.
\* (mutant) the in-process counter is left as it is.
reset_mem_keep(fa, id) == fa

reset_mem(fa, id) == Remove(fa, id)
reset_redis(ra, id) == Remove(ra, id)

\* History of the guard calls, per identifier.
BfAfterFailure(cnt, id) == [cnt EXCEPT ![id] = @ + 1]
BfStartAfterFailure(st, id) == [st EXCEPT ![id] = IF @ = -1 THEN now ELSE @]
BfAfterReset(f, id, v) == [f EXCEPT ![id] = v]

\* History of failed logins per (username, ip): the count restarts when the
\* previous failure of the pair is a lockout window old, and on a reset of
\* either identifier.
PairFailsAfterFailure(pf, pl, u, ip) ==
    [pf EXCEPT ![<<u, ip>>] = IF pl[<<u, ip>>] >= 0 /\ now < pl[<<u, ip>>] + lockout_seconds
                              THEN @ + 1 ELSE 1]
PairFailsAfterReset(pf, u, ip) ==
    [p \in DOMAIN pf |-> IF p[1] = u \/ p[2] = ip THEN 0 ELSE pf[p]]

\* ------------------------------------------------------------------- inputs
Forged(tok) == {[tok EXCEPT !.sig = "bad"], [tok EXCEPT !.aud = "other-api"],
                [tok EXCEPT !.iss = "other.issuer"]}
TokenInputs == issued \cup UNION {Forged(t) : t \in issued}
AccessCookies == {t \in issued : t.type = "access"} \cup {NoToken}
RefreshCookies == {t \in issued : t.type = "refresh"} \cup {NoToken}
KnownSids == 1..(nextSid - 1)
SidCookies == KnownSids \cup {NoSid}

EmptyMap == [x \in {} |-> 0]

\* _record_suspicious_activity: entries an hour old are dropped, and the
\* address is blocked at 5 entries.
suspicious_window == 3600
suspicious_threshold == 5

\* ------------------------------------------------------------- rate limits
rate_limits ==
    [login |-> [requests |-> 5, window |-> 900],
     register |-> [requests |-> 3, window |-> 3600],
     api |-> [requests |-> 1000, window |-> 3600],
     payment |-> [requests |-> 10, window |-> 3600],
     global |-> [requests |-> 10000, window |-> 3600]]

\* The rate types and addresses the limiter is called with here.
RateTypes == {"login", "register"}
RateIPs == {"1.2.3.4"}
RateKeys == RateTypes \X RateIPs

\* The requests that can be inside _redis_rate_limit at the same time, and a
\* request that is not.
RaceProcs == 1..MaxConcurrent
Idle == [pc |-> "idle", key |-> <<"", "">>, seen |-> 0]

\* Everything but the strict_ip_validation setting.
InitStores ==
    /\ now = 0
    /\ ticks = 0
    /\ USE_REDIS \in BOOLEAN
    /\ redis_available = TRUE
    /\ session_store = EmptyMap
    /\ failed_attempts = EmptyMap
    /\ revoked_jtis = {}
    /\ redis_session = EmptyMap
    /\ redis_attempts = EmptyMap
    /\ redis_revoked = EmptyMap
    /\ issued = {}
    /\ nextSid = 1
    /\ nextJti = 1
    /\ last = NoLast
    /\ denied = {}
    /\ logoutSeen = {}
    /\ loggedOut = {}
    /\ pwRevoked = {}
    /\ sessExp = EmptyMap
    /\ expiredSeen = {}
    /\ bfCount = [id \in Identifiers |-> 0]
    /\ bfStart = [id \in Identifiers |-> -1]
    /\ bfLast = [id \in Identifiers |-> -1]
    /\ pairFails = [p \in (Usernames \cup UnknownUsers) \X IPs |-> 0]
    /\ pairLast = [p \in (Usernames \cup UnknownUsers) \X IPs |-> -1]
    /\ MW_USE_REDIS = USE_REDIS
    /\ in_memory_store = EmptyMap
    /\ redis_rate = EmptyMap
    /\ rlStart = [k \in RateKeys |-> -1]
    /\ rlCalls = [k \in RateKeys |-> 0]
    /\ rlDenied = {}
    /\ rl_inflight = [p \in RaceProcs |-> Idle]
    /\ rlAdmitted = [k \in RateKeys |-> 0]
    /\ rf_inflight = [p \in RaceProcs |-> ""]
    /\ rt_inflight = [p \in RaceProcs |-> NoToken]
    /\ lg_inflight = [p \in RaceProcs |-> NoLogin]
    /\ blocked_ips = {}
    /\ suspicious_requests = EmptyMap
    /\ suspLog = [ip \in IPs |-> <<>>]

\* strict_ip_validation: bool = False, the default of the settings.
Init == strict_ip_validation = FALSE /\ InitStores

\* The setting as the environment may give it.
InitStrict == strict_ip_validation \in BOOLEAN /\ InitStores

\* ------------------------------------------------------------------- clock
\* The deadlines that "now < deadline" is tested against (token exp, TTL of a
\* key of the shared cache, end of a lockout window), and those that
\* "now > deadline" is tested against (expires_at of a session record).
StrictDeadlines ==
    {t.exp : t \in issued}
    \cup {redis_session[s].expire_at : s \in DOMAIN redis_session}
    \cup {redis_attempts[i].expire_at : i \in DOMAIN redis_attempts}
    \cup {redis_revoked[j] : j \in DOMAIN redis_revoked}
    \cup {bfStart[i] + lockout_seconds : i \in {x \in Identifiers : bfStart[x] >= 0}}
    \cup {bfLast[i] + lockout_seconds : i \in {x \in Identifiers : bfLast[x] >= 0}}
    \cup {pairLast[p] + lockout_seconds : p \in {x \in DOMAIN pairLast : pairLast[x] >= 0}}
    \cup {in_memory_store[k].window_start + rate_limits[k[1]].window : k \in DOMAIN in_memory_store}
    \cup {redis_rate[k].expire_at : k \in DOMAIN redis_rate}
    \cup {rlStart[k] + rate_limits[k[1]].window : k \in {x \in RateKeys : rlStart[x] >= 0}}
    \cup UNION {{suspicious_requests[ip][i] + suspicious_window :
                    i \in 1..Len(suspicious_requests[ip])} : ip \in DOMAIN suspicious_requests}
LaxDeadlines == {session_store[s].expires_at : s \in DOMAIN session_store}

\* The last second before and the first second after each deadline.
NextInstants ==
    {t \in UNION {{d - 1, d} : d \in StrictDeadlines} \cup UNION {{d, d + 1} : d \in LaxDeadlines} :
        t > now}

\* (mutant) a key is still there at the instant its TTL runs out.
Live_inclusive(store, t) == [k \in {x \in DOMAIN store : t <= store[x].expire_at} |-> store[k]]

\* The keys of the shared cache that have not expired at t.
Live(store, t) == [k \in {x \in DOMAIN store : t < store[x].expire_at} |-> store[k]]

\* The clock advances to one of these instants; the shared cache drops the keys
\* whose TTL has run out.
Tick(t) ==
    /\ t \in NextInstants
    /\ now' = t
    /\ ticks' = ticks + 1
    /\ redis_session' = Live(redis_session, t)
    /\ redis_attempts' = Live(redis_attempts, t)
    /\ redis_revoked' = [j \in {x \in DOMAIN redis_revoked : t < redis_revoked[x]} |-> redis_revoked[j]]
    /\ last' = [NoLast EXCEPT !.op = "tick"]
    /\ redis_rate' = Live(redis_rate, t)
    /\ UNCHANGED <<cfgVars, stepVars, blockVars, in_memory_store, rlStart, rlCalls, rlDenied, rl_inflight, rlAdmitted, session_store, nextSid, sessExp, tokVars, revoked_jtis, denied, logoutSeen,
                   failed_attempts, bfCount, bfStart, bfLast, pairFails, pairLast, histVars>>

\* The part of every handler that runs validate_session(sid, ip): the stores
\* afterwards, and the history of validations that came after expires_at.
ExpiredCall(sid) == sid \in DOMAIN sessExp /\ now > sessExp[sid]
seen_after_validate(sid) == IF ExpiredCall(sid) THEN expiredSeen \cup {sid} ELSE expiredSeen

\* -------------------------------------------------------------------- login
\* (mutant) the credentials are verified before the guard is consulted.
LoginOutcome_creds_first(username, password_ok, ip) ==
    IF UserIdOf(username) # 0 /\ password_ok
    THEN [status |-> 200, detail |-> "Login successful", retry_after |-> 0]
    ELSE IF check(ip).blocked
    THEN [status |-> 429, detail |-> "Too many failed attempts",
          retry_after |-> (check(ip).retry_after \div 60) * 60]
    ELSE IF check(username).blocked
    THEN [status |-> 423, detail |-> "Account temporarily locked", retry_after |-> 0]
    ELSE [status |-> 401, detail |-> "Invalid credentials", retry_after |-> 0]

\* The response of secure_login. retry_after is the delay the response states:
\* the 429 says "Try again in <retry_after // 60> minutes", the 423 states none.
LoginOutcome(username, password_ok, ip) ==
    IF StoreRaises
    THEN [status |-> 500, detail |-> "Internal server error", retry_after |-> 0]
    ELSE IF check(ip).blocked
    THEN [status |-> 429, detail |-> "Too many failed attempts",
          retry_after |-> (check(ip).retry_after \div 60) * 60]
    ELSE IF check(username).blocked
    THEN [status |-> 423, detail |-> "Account temporarily locked", retry_after |-> 0]
    ELSE IF UserIdOf(username) # 0 /\ password_ok
    THEN [status |-> 200, detail |-> "Login successful", retry_after |-> 0]
    ELSE [status |-> 401, detail |-> "Invalid credentials", retry_after |-> 0]

\* (mutant) the id of the previous session is handed out again.
new_session_id_reused == IF nextSid > 1 THEN nextSid - 1 ELSE nextSid

\* secrets.token_urlsafe(32): a value no earlier session has.
new_session_id == nextSid

\* create_session, called by a successful login.
create_session(user_id, ip, remember_me) ==
    LET sid == new_session_id
        access == create_token("access", user_id, sid, ACCESS_TTL, nextJti)
        refresh == create_token("refresh", user_id, sid, REFRESH_TTL, nextJti + 1)
        payload == session_payload(user_id, sid, ip, remember_me)
        duration == IF remember_me THEN refresh_duration ELSE session_duration
    IN
    /\ session_store' = IF USE_REDIS THEN session_store
                        ELSE [s \in DOMAIN session_store \cup {sid} |->
                                 IF s = sid THEN payload ELSE session_store[s]]
    /\ redis_session' = IF USE_REDIS
                        THEN [s \in DOMAIN redis_session \cup {sid} |->
                                 IF s = sid THEN [data |-> payload, expire_at |-> now + duration]
                                 ELSE redis_session[s]]
                        ELSE redis_session
    /\ sessExp' = [s \in DOMAIN sessExp \cup {sid} |->
                      IF s = sid THEN payload.expires_at ELSE sessExp[s]]
    /\ issued' = issued \cup {access, refresh}
    /\ nextSid' = nextSid + 1
    /\ nextJti' = nextJti + 2
    /\ last' = [NoLast EXCEPT !.op = "login", !.status = 200, !.detail = "Login successful",
                              !.user_id = user_id, !.session_id = sid, !.ip = ip,
                              !.access = access, !.remember_me = remember_me,
                              !.db_queried = TRUE,
                              !.password_verified = TRUE]

\* (mutant) the user is looked up before the guard is consulted.
reaches_credentials_always(out) == TRUE

\* db.query(User) runs only past both guard checks; verify_password runs only
\* when the query found a user ("user and verify_password(...)").
reaches_credentials(out) == out.status \notin {423, 429, 500}

\* (mutant) a refused attempt is counted as a failure of both identifiers.
refused_login_counting(out, username, password_ok, ip) ==
    /\ last' = [NoLast EXCEPT !.op = "login", !.status = out.status, !.detail = out.detail,
                              !.ip = ip, !.retry_after = out.retry_after,
                              !.identifier = username, !.password_ok = password_ok]
    /\ failed_attempts' = IF USE_REDIS THEN failed_attempts
                          ELSE record_failure_mem(record_failure_mem(failed_attempts, ip), username)
    /\ redis_attempts' = IF USE_REDIS /\ ~StoreRaises
                         THEN record_failure_redis(record_failure_redis(redis_attempts, ip), username)
                         ELSE redis_attempts
    /\ UNCHANGED <<sessVars, tokVars, bfCount, bfStart, bfLast, pairFails, pairLast>>

\* The HTTPException of a guard check (or the error of its store call) leaves
\* the handler before anything is written.
refused_login(out, username, password_ok, ip) ==
    /\ last' = [NoLast EXCEPT !.op = "login", !.status = out.status, !.detail = out.detail,
                              !.ip = ip, !.retry_after = out.retry_after,
                              !.identifier = username, !.password_ok = password_ok,
                              !.db_queried = reaches_credentials(out),
                              !.password_verified =
                                  reaches_credentials(out) /\ UserIdOf(username) # 0]
    /\ UNCHANGED <<sessVars, tokVars, guardVars>>

secure_login(username, password_ok, ip, remember_me) ==
    LET out == LoginOutcome(username, password_ok, ip)
        db_queried == reaches_credentials(out)
        password_verified == db_queried /\ UserIdOf(username) # 0
    IN
    /\ IF out.status = 200 THEN
          \* reset both identifiers, then create the session and the tokens
          /\ failed_attempts' = IF USE_REDIS THEN failed_attempts
                                ELSE reset_mem(reset_mem(failed_attempts, ip), username)
          /\ redis_attempts' = IF USE_REDIS THEN reset_redis(reset_redis(redis_attempts, ip), username)
                               ELSE redis_attempts
          /\ bfCount' = BfAfterReset(BfAfterReset(bfCount, ip, 0), username, 0)
          /\ bfStart' = BfAfterReset(BfAfterReset(bfStart, ip, -1), username, -1)
          /\ bfLast' = BfAfterReset(BfAfterReset(bfLast, ip, -1), username, -1)
          /\ pairFails' = PairFailsAfterReset(pairFails, username, ip)
          /\ pairLast' = pairLast
          /\ create_session(UserIdOf(username), ip, remember_me)
       ELSE IF out.status = 401 THEN
          \* record the failure on both identifiers
          /\ failed_attempts' = IF USE_REDIS THEN failed_attempts
                                ELSE record_failure_mem(record_failure_mem(failed_attempts, ip), username)
          /\ redis_attempts' = IF USE_REDIS
                               THEN record_failure_redis(record_failure_redis(redis_attempts, ip), username)
                               ELSE redis_attempts
          /\ bfCount' = BfAfterFailure(BfAfterFailure(bfCount, ip), username)
          /\ bfStart' = BfStartAfterFailure(BfStartAfterFailure(bfStart, ip), username)
          /\ bfLast' = BfAfterReset(BfAfterReset(bfLast, ip, now), username, now)
          /\ pairFails' = PairFailsAfterFailure(pairFails, pairLast, username, ip)
          /\ pairLast' = [pairLast EXCEPT ![<<username, ip>>] = now]
          /\ last' = [NoLast EXCEPT !.op = "login", !.status = 401, !.detail = out.detail, !.ip = ip,
                                    !.identifier = username, !.password_ok = password_ok,
                                    !.db_queried = db_queried,
                                    !.password_verified = password_verified]
          /\ UNCHANGED <<sessVars, tokVars>>
       ELSE
          \* blocked by the guard, or the guard's store call raised before the try
          \* block: the user table and the verifier are not reached
          /\ refused_login(out, username, password_ok, ip)
    /\ UNCHANGED <<cfgVars, stepVars, rateVars, clockVars, blockVars, revVars, histVars>>

\* ------------------------------------------------------------- authenticate
\* (mutant) the 'type' claim is not looked at.
AuthOutcome_any_type(tok, sid_cookie, ip) ==
    IF tok = NoToken \/ sid_cookie = NoSid
    THEN [status |-> 401, detail |-> "Authentication required", user_id |-> 0, session_id |-> NoSid]
    ELSE IF ~jwt_decode(tok)
    THEN [status |-> 401, detail |-> "Invalid access token", user_id |-> 0, session_id |-> NoSid]
    ELSE IF StoreRaises
    THEN [status |-> 500, detail |-> "Internal server error", user_id |-> 0, session_id |-> NoSid]
    ELSE IF is_jti_revoked(tok.jti)
    THEN [status |-> 401, detail |-> "Token revoked", user_id |-> 0, session_id |-> NoSid]
    ELSE LET data == validate_session(tok.session_id, ip)
         IN IF data = None \/ data.user_id # IntOf(tok.sub)
            THEN [status |-> 401, detail |-> "Invalid session", user_id |-> 0, session_id |-> NoSid]
            ELSE [status |-> 200, detail |-> "", user_id |-> IntOf(tok.sub),
                  session_id |-> tok.session_id]

AuthOutcome(tok, sid_cookie, ip) ==
    IF tok = NoToken \/ sid_cookie = NoSid
    THEN [status |-> 401, detail |-> "Authentication required", user_id |-> 0, session_id |-> NoSid]
    ELSE IF ~jwt_decode(tok)
    THEN [status |-> 401, detail |-> "Invalid access token", user_id |-> 0, session_id |-> NoSid]
    ELSE IF tok.type # "access"
    THEN [status |-> 401, detail |-> "Invalid token type", user_id |-> 0, session_id |-> NoSid]
    ELSE IF StoreRaises
    THEN [status |-> 500, detail |-> "Internal server error", user_id |-> 0, session_id |-> NoSid]
    ELSE IF is_jti_revoked(tok.jti)
    THEN [status |-> 401, detail |-> "Token revoked", user_id |-> 0, session_id |-> NoSid]
    ELSE LET data == validate_session(tok.session_id, ip)
         IN IF data = None \/ data.user_id # IntOf(tok.sub)
            THEN [status |-> 401, detail |-> "Invalid session", user_id |-> 0, session_id |-> NoSid]
            ELSE [status |-> 200, detail |-> "", user_id |-> IntOf(tok.sub),
                  session_id |-> tok.session_id]

\* TRUE when a token handler gets as far as validate_session.
ReachesSession(tok, sid_cookie, wanted) ==
    /\ tok # NoToken /\ sid_cookie # NoSid
    /\ jwt_decode(tok)
    /\ tok.type = wanted
    /\ ~StoreRaises
    /\ ~is_jti_revoked(tok.jti)

\* (mutant) the session acted for is the one the cookie names.
get_current_user_from_cookie_by_cookie(tok, sid_cookie, ip) ==
    LET out == AuthOutcome(tok, sid_cookie, ip)
        reached == ReachesSession(tok, sid_cookie, "access")
    IN
    /\ session_store' = IF reached THEN mem_after_validate(tok.session_id) ELSE session_store
    /\ redis_session' = IF reached THEN redis_after_validate(tok.session_id) ELSE redis_session
    /\ expiredSeen' = IF reached THEN seen_after_validate(tok.session_id) ELSE expiredSeen
    /\ last' = [NoLast EXCEPT !.op = "authenticate", !.status = out.status, !.detail = out.detail,
                              !.user_id = out.user_id,
                              !.session_id = IF out.status = 200 THEN sid_cookie ELSE NoSid,
                              !.tok = IF sid_cookie = NoSid THEN NoToken ELSE tok,
                              !.cookie = IF tok = NoToken THEN NoSid ELSE sid_cookie]
    /\ UNCHANGED <<cfgVars, stepVars, rateVars, clockVars, blockVars, nextSid, sessExp, tokVars, revVars, guardVars,
                   loggedOut, pwRevoked>>

get_current_user_from_cookie(tok, sid_cookie, ip) ==
    LET out == AuthOutcome(tok, sid_cookie, ip)
        reached == ReachesSession(tok, sid_cookie, "access")
    IN
    /\ session_store' = IF reached THEN mem_after_validate(tok.session_id) ELSE session_store
    /\ redis_session' = IF reached THEN redis_after_validate(tok.session_id) ELSE redis_session
    /\ expiredSeen' = IF reached THEN seen_after_validate(tok.session_id) ELSE expiredSeen
    /\ last' = [NoLast EXCEPT !.op = "authenticate", !.status = out.status, !.detail = out.detail,
                              !.user_id = out.user_id, !.session_id = out.session_id,
                              !.tok = IF sid_cookie = NoSid THEN NoToken ELSE tok,
                              !.cookie = IF tok = NoToken THEN NoSid ELSE sid_cookie]
    /\ UNCHANGED <<cfgVars, stepVars, rateVars, clockVars, blockVars, nextSid, sessExp, tokVars, revVars, guardVars,
                   loggedOut, pwRevoked>>

\* ---------------------------------------------------------------------- /me
get_current_user_secure(sid_cookie, ip) ==
    LET data == IF sid_cookie = NoSid THEN None ELSE validate_session(sid_cookie, ip)
    IN
    /\ session_store' = IF sid_cookie # NoSid THEN mem_after_validate(sid_cookie) ELSE session_store
    /\ redis_session' = IF sid_cookie # NoSid THEN redis_after_validate(sid_cookie) ELSE redis_session
    /\ expiredSeen' = IF sid_cookie # NoSid THEN seen_after_validate(sid_cookie) ELSE expiredSeen
    /\ last' = IF data = None
               THEN [NoLast EXCEPT !.op = "me", !.status = 401,
                                   !.detail = IF sid_cookie = NoSid THEN "No active session"
                                              ELSE "Invalid or expired session",
                                   !.session_id = sid_cookie]
               ELSE [NoLast EXCEPT !.op = "me", !.status = 200, !.user_id = data.user_id,
                                   !.session_id = sid_cookie]
    /\ UNCHANGED <<cfgVars, stepVars, rateVars, clockVars, blockVars, nextSid, sessExp, tokVars, revVars, guardVars,
                   loggedOut, pwRevoked>>

\* ------------------------------------------------------------------ refresh
\* (mutant) the session of the token is not validated.
RefreshOutcome_no_session(tok, sid_cookie, ip) ==
    IF tok = NoToken \/ sid_cookie = NoSid
    THEN [status |-> 401, detail |-> "No refresh token"]
    ELSE IF ~jwt_decode(tok)
    THEN [status |-> 401, detail |-> "Invalid refresh token"]
    ELSE IF tok.type # "refresh"
    THEN [status |-> 401, detail |-> "Invalid token type"]
    ELSE IF StoreRaises
    THEN [status |-> 500, detail |-> "Internal server error"]
    ELSE IF is_jti_revoked(tok.jti)
    THEN [status |-> 401, detail |-> "Token revoked"]
    ELSE [status |-> 200, detail |-> "Token refreshed successfully"]

RefreshOutcome(tok, sid_cookie, ip) ==
    IF tok = NoToken \/ sid_cookie = NoSid
    THEN [status |-> 401, detail |-> "No refresh token"]
    ELSE IF ~jwt_decode(tok)
    THEN [status |-> 401, detail |-> "Invalid refresh token"]
    ELSE IF tok.type # "refresh"
    THEN [status |-> 401, detail |-> "Invalid token type"]
    ELSE IF StoreRaises
    THEN [status |-> 500, detail |-> "Internal server error"]
    ELSE IF is_jti_revoked(tok.jti)
    THEN [status |-> 401, detail |-> "Token revoked"]
    ELSE LET data == validate_session(tok.session_id, ip)
         IN IF data = None \/ data.user_id # IntOf(tok.sub)
            THEN [status |-> 401, detail |-> "Invalid session"]
            ELSE [status |-> 200, detail |-> "Token refreshed successfully"]

\* (mutant) the new access token is not bound to the session.
issue_access_token_unbound(user_id, session_id, jti) ==
    create_token("access", user_id, NoSid, ACCESS_TTL, jti)

issue_access_token(user_id, session_id, jti) ==
    create_token("access", user_id, session_id, ACCESS_TTL, jti)

refresh_token(tok, sid_cookie, ip) ==
    LET out == RefreshOutcome(tok, sid_cookie, ip)
        reached == ReachesSession(tok, sid_cookie, "refresh")
        new_access == issue_access_token(IntOf(tok.sub), tok.session_id, nextJti)
    IN
    /\ session_store' = IF reached THEN mem_after_validate(tok.session_id) ELSE session_store
    /\ redis_session' = IF reached THEN redis_after_validate(tok.session_id) ELSE redis_session
    /\ expiredSeen' = IF reached THEN seen_after_validate(tok.session_id) ELSE expiredSeen
    /\ issued' = IF out.status = 200 THEN issued \cup {new_access} ELSE issued
    /\ nextJti' = IF out.status = 200 THEN nextJti + 1 ELSE nextJti
    /\ last' = [NoLast EXCEPT !.op = "refresh", !.status = out.status, !.detail = out.detail,
                              !.user_id = IF out.status = 200 THEN IntOf(tok.sub) ELSE 0,
                              !.session_id = IF out.status = 200 THEN tok.session_id ELSE NoSid,
                              !.tok = IF sid_cookie = NoSid THEN NoToken ELSE tok,
                              !.cookie = IF tok = NoToken THEN NoSid ELSE sid_cookie,
                              !.access = IF out.status = 200 THEN new_access ELSE NoToken]
    /\ UNCHANGED <<cfgVars, stepVars, rateVars, clockVars, blockVars, nextSid, sessExp, revVars, guardVars, loggedOut, pwRevoked>>

\* ------------------------------------- refresh across worker processes
\* (mutant) the refresh writes the record it validated back to the store.
session_after_refresh_touch(store, data) ==
    [s \in DOMAIN store \cup {data.session_id} |->
        IF s = data.session_id
        THEN [data |-> data, expire_at |-> data.expires_at]
        ELSE store[s]]

\* refresh_token writes nothing to the session store.
session_after_refresh(store, data) == store

\* With the shared cache several worker processes serve one session. The
\* first half of a refresh that succeeds: every check up to validate_session.
refresh_validate(p, tok, sid_cookie, ip) ==
    /\ USE_REDIS
    /\ rt_inflight[p] = NoToken
    /\ RefreshOutcome(tok, sid_cookie, ip).status = 200
    /\ rt_inflight' = [rt_inflight EXCEPT ![p] = tok]
    /\ last' = [NoLast EXCEPT !.op = "refresh_validate", !.tok = tok, !.ip = ip,
                              !.session_id = tok.session_id]
    /\ UNCHANGED <<cfgVars, rf_inflight, lg_inflight, rateVars, clockVars, blockVars, sessVars, tokVars,
                   revVars, guardVars, histVars>>

\* The second half: issue_access_token for the sub and session_id of the
\* refresh token, and the cookie.
refresh_issue(p) ==
    LET tok == rt_inflight[p]
        new_access == issue_access_token(IntOf(tok.sub), tok.session_id, nextJti)
        data == [None EXCEPT !.user_id = IntOf(tok.sub), !.session_id = tok.session_id,
                             !.expires_at = tok.exp, !.active = TRUE]
    IN  /\ tok # NoToken
        /\ rt_inflight' = [rt_inflight EXCEPT ![p] = NoToken]
        /\ redis_session' = session_after_refresh(redis_session, data)
        /\ issued' = issued \cup {new_access}
        /\ nextJti' = nextJti + 1
        /\ last' = [NoLast EXCEPT !.op = "refresh_issue", !.status = 200,
                                  !.detail = "Token refreshed successfully",
                                  !.user_id = IntOf(tok.sub), !.session_id = tok.session_id,
                                  !.tok = tok, !.access = new_access]
        /\ UNCHANGED <<cfgVars, rf_inflight, lg_inflight, rateVars, clockVars, blockVars, session_store,
                       nextSid, sessExp, revVars, guardVars, histVars>>

\* ------------------------------------------------------------------- logout
\* The presented tokens that decode; each of them is denied.
\* (mutant) a token that does not decode aborts the loop.
LogoutDecoded_abort(access, refresh) ==
    IF access # NoToken /\ ~jwt_decode(access) THEN {}
    ELSE {t \in {access, refresh} : jwt_decode(t)}

LogoutDecoded(access, refresh) == {t \in {access, refresh} : jwt_decode(t)}

\* (mutant) every token of the sessions of the presented tokens is denied.
add_all_mem_session(reg, toks) ==
    reg \cup {t.jti : t \in {x \in issued : \E y \in toks : x.session_id = y.session_id}}

add_all_mem(reg, toks) == reg \cup {t.jti : t \in toks}
add_all_redis(reg, toks) ==
    [j \in DOMAIN reg \cup {t.jti : t \in toks} |->
        IF \E t \in toks : t.jti = j
        THEN now + denylist_ttl((CHOOSE t \in toks : t.jti = j).exp)
        ELSE reg[j]]

logout_handler(access, refresh, sid_cookie) ==
    LET toks == LogoutDecoded(access, refresh)
        complete == /\ access \in issued /\ refresh \in issued
                    /\ access.type = "access" /\ refresh.type = "refresh"
                    /\ sid_cookie # NoSid
                    /\ access.session_id = sid_cookie /\ refresh.session_id = sid_cookie
        raises == StoreRaises /\ (toks # {} \/ sid_cookie # NoSid)
    IN
    /\ IF raises THEN
          \* the first store call raises and nothing catches it
          /\ last' = [NoLast EXCEPT !.op = "logout", !.status = 500,
                                    !.detail = "Internal server error", !.session_id = sid_cookie]
          /\ UNCHANGED <<revoked_jtis, redis_revoked, session_store, redis_session, denied,
                         loggedOut>>
       ELSE
          /\ revoked_jtis' = IF USE_REDIS THEN revoked_jtis ELSE add_all_mem(revoked_jtis, toks)
          /\ redis_revoked' = IF USE_REDIS THEN add_all_redis(redis_revoked, toks) ELSE redis_revoked
          /\ session_store' = IF ~USE_REDIS /\ sid_cookie # NoSid
                              THEN invalidate_mem(session_store, sid_cookie) ELSE session_store
          /\ redis_session' = IF USE_REDIS /\ sid_cookie # NoSid
                              THEN invalidate_redis(redis_session, sid_cookie) ELSE redis_session
          /\ denied' = denied \cup {[tok |-> t, at |-> now] : t \in {x \in toks : \A e \in denied : e.tok # x}}
          /\ loggedOut' = IF complete /\ \A e \in loggedOut : e.tok # access
                          THEN loggedOut \cup
                               {[tok |-> access, sid |-> sid_cookie,
                                 remember_me |-> session_get(sid_cookie).remember_me,
                                 authed |-> \E ip \in IPs : AuthOutcome(access, sid_cookie, ip).status = 200]}
                          ELSE loggedOut
          /\ last' = [NoLast EXCEPT !.op = "logout", !.status = 200, !.detail = "Logged out successfully",
                                    !.session_id = sid_cookie]
    /\ UNCHANGED <<cfgVars, stepVars, rateVars, clockVars, blockVars, nextSid, sessExp, tokVars, guardVars, pwRevoked, expiredSeen>>

secure_logout(access, refresh, sid_cookie) ==
    /\ logout_handler(access, refresh, sid_cookie)
    /\ UNCHANGED logoutSeen

\* The same handler, with the history of the presented tokens kept as well:
\* each token the first time it is presented, and whether it decoded then.
secure_logout_observed(access, refresh, sid_cookie) ==
    /\ logout_handler(access, refresh, sid_cookie)
    /\ logoutSeen' = logoutSeen \cup
          {[tok |-> t, at |-> now, decoded |-> jwt_decode(t)] :
              t \in {x \in {access, refresh} \ {NoToken} : \A e \in logoutSeen : e.tok # x}}

\* ---------------------------------------------------------- change_password
\* The request model has already validated new_password, so the handler's own
\* strength check passes.
SessionsOf(user_id) ==
    {s \in KnownSids : session_get(s) # None /\ session_get(s).user_id = user_id}

change_password(sid_cookie, ip) ==
    LET data == IF sid_cookie = NoSid THEN None ELSE validate_session(sid_cookie, ip)
        user_id == data.user_id
    IN
    /\ expiredSeen' = IF sid_cookie # NoSid THEN seen_after_validate(sid_cookie) ELSE expiredSeen
    /\ IF data = None THEN
          /\ session_store' = IF sid_cookie # NoSid THEN mem_after_validate(sid_cookie) ELSE session_store
          /\ redis_session' = IF sid_cookie # NoSid THEN redis_after_validate(sid_cookie) ELSE redis_session
          /\ pwRevoked' = pwRevoked
          /\ last' = [NoLast EXCEPT !.op = "change_password", !.status = 401,
                                    !.detail = IF sid_cookie = NoSid THEN "Authentication required"
                                               ELSE "Invalid session"]
       ELSE
          /\ session_store' = IF USE_REDIS THEN session_store
                              ELSE invalidate_all_mem(session_store, user_id)
          /\ redis_session' = IF USE_REDIS THEN invalidate_all_redis(redis_session, user_id)
                              ELSE redis_session
          /\ pwRevoked' = IF Cardinality(SessionsOf(user_id)) >= 2
                          THEN pwRevoked \cup SessionsOf(user_id) ELSE pwRevoked
          /\ last' = [NoLast EXCEPT !.op = "change_password", !.status = 200,
                                    !.detail = "Password changed successfully",
                                    !.user_id = user_id, !.session_id = sid_cookie]
    /\ UNCHANGED <<cfgVars, stepVars, rateVars, clockVars, blockVars, nextSid, sessExp, tokVars, revVars, guardVars, loggedOut>>

\* ------------------------------------------------------------ rate limiter
rate_put(store, key, val) == [k \in DOMAIN store \cup {key} |-> IF k = key THEN val ELSE store[k]]

\* (mutant) the limit is compared with > instead of >=.
memory_rate_limit_gt(store, key, max_requests, window) ==
    IF key \notin DOMAIN store
    THEN [allowed |-> TRUE, store |-> rate_put(store, key, [count |-> 1, window_start |-> now])]
    ELSE IF now - store[key].window_start >= window
    THEN [allowed |-> TRUE, store |-> rate_put(store, key, [count |-> 1, window_start |-> now])]
    ELSE IF store[key].count > max_requests
    THEN [allowed |-> FALSE, store |-> store]
    ELSE [allowed |-> TRUE,
          store |-> rate_put(store, key, [store[key] EXCEPT !.count = store[key].count + 1])]

memory_rate_limit(store, key, max_requests, window) ==
    IF key \notin DOMAIN store
    THEN [allowed |-> TRUE, store |-> rate_put(store, key, [count |-> 1, window_start |-> now])]
    ELSE IF now - store[key].window_start >= window
    THEN [allowed |-> TRUE, store |-> rate_put(store, key, [count |-> 1, window_start |-> now])]
    ELSE IF store[key].count >= max_requests
    THEN [allowed |-> FALSE, store |-> store]
    ELSE [allowed |-> TRUE,
          store |-> rate_put(store, key, [store[key] EXCEPT !.count = store[key].count + 1])]

\* GET, then SETEX key window 1 or INCR; INCR keeps the TTL of the key.
\* (mutant) a failing store call refuses the request.
redis_rate_limit_fail_closed(store, key, max_requests, window) ==
    IF ~redis_available
    THEN [allowed |-> FALSE, store |-> store]
    ELSE IF key \notin DOMAIN Live(store, now)
    THEN [allowed |-> TRUE,
          store |-> rate_put(store, key, [val |-> 1, expire_at |-> now + window])]
    ELSE IF store[key].val >= max_requests
    THEN [allowed |-> FALSE, store |-> store]
    ELSE [allowed |-> TRUE,
          store |-> rate_put(store, key, [store[key] EXCEPT !.val = store[key].val + 1])]

\* A store call that raises lands in "except Exception: return True".
redis_rate_limit(store, key, max_requests, window) ==
    IF ~redis_available
    THEN [allowed |-> TRUE, store |-> store]
    ELSE IF key \notin DOMAIN Live(store, now)
    THEN [allowed |-> TRUE,
          store |-> rate_put(store, key, [val |-> 1, expire_at |-> now + window])]
    ELSE IF store[key].val >= max_requests
    THEN [allowed |-> FALSE, store |-> store]
    ELSE [allowed |-> TRUE,
          store |-> rate_put(store, key, [store[key] EXCEPT !.val = store[key].val + 1])]

\* History: a window opens with the first call and lasts `window` seconds.
NewWindow(key) == rlStart[key] = -1 \/ now >= rlStart[key] + rate_limits[key[1]].window
CallsAfter(key) == IF NewWindow(key) THEN 1 ELSE rlCalls[key] + 1

check_rate_limit_for_type(client_ip, rate_type) ==
    LET key == <<rate_type, client_ip>>
        known == rate_type \in DOMAIN rate_limits
        config == rate_limits[rate_type]
        r == IF ~known THEN [allowed |-> TRUE, store |-> EmptyMap]
             ELSE IF MW_USE_REDIS
             THEN redis_rate_limit(redis_rate, key, config.requests, config.window)
             ELSE memory_rate_limit(in_memory_store, key, config.requests, config.window)
    IN  /\ redis_rate' = IF known /\ MW_USE_REDIS THEN r.store ELSE redis_rate
        /\ in_memory_store' = IF known /\ ~MW_USE_REDIS THEN r.store ELSE in_memory_store
        /\ rlStart' = IF key \in RateKeys /\ NewWindow(key)
                      THEN [rlStart EXCEPT ![key] = now] ELSE rlStart
        /\ rlCalls' = IF key \in RateKeys
                      THEN [rlCalls EXCEPT ![key] = CallsAfter(key)] ELSE rlCalls
        /\ rlDenied' = IF r.allowed THEN rlDenied ELSE rlDenied \cup {key}
        /\ last' = [NoLast EXCEPT !.op = "allow", !.ip = client_ip, !.rate_type = rate_type,
                                  !.allowed = r.allowed]
        /\ UNCHANGED <<cfgVars, stepVars, clockVars, blockVars, sessVars, tokVars, revVars, guardVars, histVars,
                       rl_inflight, rlAdmitted>>

\* The two limiters of _check_rate_limit_for_type run on the same call, each
\* on its own store, whatever USE_REDIS selects.
rate_limit_both(client_ip, rate_type) ==
    LET key == <<rate_type, client_ip>>
        config == rate_limits[rate_type]
        m == memory_rate_limit(in_memory_store, key, config.requests, config.window)
        r == redis_rate_limit(redis_rate, key, config.requests, config.window)
    IN  /\ in_memory_store' = m.store
        /\ redis_rate' = r.store
        /\ rlStart' = IF NewWindow(key) THEN [rlStart EXCEPT ![key] = now] ELSE rlStart
        /\ rlCalls' = [rlCalls EXCEPT ![key] = CallsAfter(key)]
        /\ rlDenied' = IF m.allowed /\ r.allowed THEN rlDenied ELSE rlDenied \cup {key}
        /\ last' = [NoLast EXCEPT !.op = "allow_both", !.ip = client_ip,
                                  !.rate_type = rate_type, !.allowed = m.allowed,
                                  !.allowed_redis = r.allowed]
        /\ UNCHANGED <<cfgVars, stepVars, clockVars, blockVars, sessVars, tokVars, revVars, guardVars,
                       histVars, rl_inflight, rlAdmitted>>

\* ------------------------------------- _redis_rate_limit, one await at a time
\* The GET (security_middleware.py:223-225): the coroutine keeps what it read,
\* 0 standing for None, and yields to the event loop.
redis_rate_limit_get(p, client_ip, rate_type) ==
    LET key == <<rate_type, client_ip>>
        alive == key \in DOMAIN Live(redis_rate, now)
    IN  /\ MW_USE_REDIS /\ redis_available
        /\ rate_type \in DOMAIN rate_limits
        /\ rl_inflight[p].pc = "idle"
        /\ rl_inflight' = [rl_inflight EXCEPT ![p] =
                              [pc |-> "read", key |-> key,
                               seen |-> IF alive THEN redis_rate[key].val ELSE 0]]
        /\ last' = [NoLast EXCEPT !.op = "allow_get", !.ip = client_ip, !.rate_type = rate_type]
        /\ UNCHANGED <<cfgVars, stepVars, clockVars, blockVars, sessVars, tokVars, revVars, guardVars, histVars,
                       in_memory_store, redis_rate, rlStart, rlCalls, rlDenied, rlAdmitted>>

\* INCR on a key that is gone creates it with the value 1 and no TTL.
NoExpiry == 2147483647
redis_incr(store, key) ==
    IF key \in DOMAIN Live(store, now)
    THEN rate_put(store, key, [store[key] EXCEPT !.val = store[key].val + 1])
    ELSE rate_put(store, key, [val |-> 1, expire_at |-> NoExpiry])

\* The rest of the call (security_middleware.py:227-241), decided on the value
\* read earlier: SETEX key window 1, or refuse, or INCR.
redis_rate_limit_put(p) ==
    LET key == rl_inflight[p].key
        seen == rl_inflight[p].seen
        config == rate_limits[key[1]]
        allowed == seen = 0 \/ seen < config.requests
    IN  /\ rl_inflight[p].pc = "read"
        /\ redis_rate' =
              IF ~redis_available THEN redis_rate
              ELSE IF seen = 0
              THEN rate_put(redis_rate, key, [val |-> 1, expire_at |-> now + config.window])
              ELSE IF seen >= config.requests THEN redis_rate
              ELSE redis_incr(redis_rate, key)
        /\ rl_inflight' = [rl_inflight EXCEPT ![p] = Idle]
        /\ rlAdmitted' = IF allowed THEN [rlAdmitted EXCEPT ![key] = @ + 1] ELSE rlAdmitted
        /\ rlDenied' = IF allowed THEN rlDenied ELSE rlDenied \cup {key}
        /\ last' = [NoLast EXCEPT !.op = "allow", !.ip = key[2], !.rate_type = key[1],
                                  !.allowed = allowed]
        /\ UNCHANGED <<cfgVars, stepVars, clockVars, blockVars, sessVars, tokVars, revVars, guardVars, histVars,
                       in_memory_store, rlStart, rlCalls>>

\* --------------------------------------------- _check_rate_limit, whole
\* verify_token of core/security.py: jose's decode checks the signature, exp
\* (expired once now > exp), the audience and the issuer; then exp once more.
verify_token(tok) ==
    /\ tok # NoToken
    /\ tok.sig = "ok"
    /\ now <= tok.exp
    /\ tok.aud = AUD
    /\ tok.iss = ISS

\* (mutant) the bearer token is not looked at.
identity_key_ip(bearer, client_ip) == client_ip

\* user_key or client_ip; NoToken stands for a request without a bearer token.
identity_key(bearer, client_ip) ==
    IF bearer # NoToken /\ verify_token(bearer) /\ bearer.sub # ""
    THEN bearer.sub ELSE client_ip

\* _check_rate_limit_for_type as a function of the two stores.
rate_limit_for_type(mem, red, identity, rate_type) ==
    LET key == <<rate_type, identity>>
        config == rate_limits[rate_type]
    IN  IF rate_type \notin DOMAIN rate_limits THEN [allowed |-> TRUE, mem |-> mem, red |-> red]
        ELSE IF MW_USE_REDIS
        THEN LET r == redis_rate_limit(red, key, config.requests, config.window)
             IN  [allowed |-> r.allowed, mem |-> mem, red |-> r.store]
        ELSE LET r == memory_rate_limit(mem, key, config.requests, config.window)
             IN  [allowed |-> r.allowed, mem |-> r.store, red |-> red]

\* (mutant) the global limit is not checked.
check_rate_limit_outcome_no_global(mem, red, identity, rate_type) ==
    LET c == rate_limit_for_type(mem, red, identity, rate_type)
    IN  IF ~c.allowed
        THEN [status |-> 429, detail |-> "Rate limit exceeded",
              retry_after |-> rate_limits[rate_type].window, mem |-> c.mem, red |-> c.red]
        ELSE [status |-> 0, detail |-> "", retry_after |-> 0, mem |-> c.mem, red |-> c.red]

\* The response of _check_rate_limit, status 0 standing for None (the request
\* goes on to call_next), and the stores afterwards.
check_rate_limit_outcome(mem, red, identity, rate_type) ==
    LET c == rate_limit_for_type(mem, red, identity, rate_type)
        g == rate_limit_for_type(c.mem, c.red, identity, "global")
    IN  IF ~c.allowed
        THEN [status |-> 429, detail |-> "Rate limit exceeded",
              retry_after |-> rate_limits[rate_type].window, mem |-> c.mem, red |-> c.red]
        ELSE IF ~g.allowed
        THEN [status |-> 429, detail |-> "Global rate limit exceeded", retry_after |-> 0,
              mem |-> g.mem, red |-> g.red]
        ELSE [status |-> 0, detail |-> "", retry_after |-> 0, mem |-> g.mem, red |-> g.red]

check_rate_limit(rate_type, bearer, client_ip) ==
    LET identity == identity_key(bearer, client_ip)
        out == check_rate_limit_outcome(in_memory_store, redis_rate, identity, rate_type)
    IN  /\ in_memory_store' = out.mem
        /\ redis_rate' = out.red
        /\ last' = [NoLast EXCEPT !.op = "rate_limit", !.status = out.status,
                                  !.detail = out.detail, !.retry_after = out.retry_after,
                                  !.ip = client_ip, !.tok = bearer, !.identifier = identity,
                                  !.rate_type = rate_type, !.allowed = out.status = 0,
                                  !.prev_ip = IF last.op = "rate_limit" /\ last.allowed
                                              THEN last.ip ELSE ""]
        /\ UNCHANGED <<cfgVars, stepVars, clockVars, blockVars, sessVars, tokVars, revVars, guardVars,
                       histVars, rlStart, rlCalls, rlDenied, rl_inflight, rlAdmitted>>

\* ------------------------------------------ record_failure, call by call
\* (mutant) the increment is a read followed by a write of the value read at
\* the start of the first call: a second call overwrites instead of adding.
attempts_incr_lost(ra, id) ==
    [x \in DOMAIN ra \cup {id} |->
        IF x = id THEN [count |-> 1, expire_at |-> IF id \in DOMAIN ra THEN ra[id].expire_at
                                                    ELSE NoExpiry]
        ELSE ra[x]]

\* INCR of "login_attempts:<id>": one atomic command of the shared cache; a new
\* key has no TTL until the EXPIRE that follows.
attempts_incr(ra, id) ==
    [x \in DOMAIN ra \cup {id} |->
        IF x = id
        THEN IF id \in DOMAIN ra /\ now < ra[id].expire_at
             THEN [ra[id] EXCEPT !.count = @ + 1]
             ELSE [count |-> 1, expire_at |-> NoExpiry]
        ELSE ra[x]]

\* The first store call of record_failure(id) made by request p. In the
\* in-process store the whole method runs without yielding (it has no await,
\* and its only caller is a coroutine of the event loop).
record_failure_incr(p, id) ==
    /\ rf_inflight[p] = ""
    /\ ~StoreRaises
    /\ failed_attempts' = IF USE_REDIS THEN failed_attempts ELSE record_failure_mem(failed_attempts, id)
    /\ redis_attempts' = IF USE_REDIS THEN attempts_incr(redis_attempts, id) ELSE redis_attempts
    /\ rf_inflight' = IF USE_REDIS THEN [rf_inflight EXCEPT ![p] = id] ELSE rf_inflight
    /\ bfCount' = BfAfterFailure(bfCount, id)
    /\ bfStart' = BfStartAfterFailure(bfStart, id)
    /\ bfLast' = BfAfterReset(bfLast, id, now)
    /\ last' = [NoLast EXCEPT !.op = "record_failure", !.identifier = id]
    /\ UNCHANGED <<cfgVars, rateVars, clockVars, blockVars, sessVars, tokVars, revVars, pairFails, pairLast,
                   histVars, rt_inflight, lg_inflight>>

\* EXPIRE key lockout_seconds, the second store call.
record_failure_expire(p) ==
    LET id == rf_inflight[p]
    IN  /\ id # ""
        /\ redis_attempts' = IF id \in DOMAIN redis_attempts
                             THEN [redis_attempts EXCEPT ![id].expire_at = now + lockout_seconds]
                             ELSE redis_attempts
        /\ rf_inflight' = [rf_inflight EXCEPT ![p] = ""]
        /\ last' = [NoLast EXCEPT !.op = "record_failure_done", !.identifier = id]
        /\ UNCHANGED <<cfgVars, rateVars, clockVars, blockVars, sessVars, tokVars, revVars, failed_attempts,
                       bfCount, bfStart, bfLast, pairFails, pairLast, histVars, rt_inflight,
                       lg_inflight>>

\* ------------------------------------------------ SecurityMiddleware.dispatch
\* (mutant) an entry exactly one hour old is kept.
recent_entries_inclusive(timestamps, t) ==
    SelectSeq(timestamps, LAMBDA ts : t - ts <= suspicious_window)

\* "if now - timestamp < 3600"
recent_entries(timestamps, t) ==
    SelectSeq(timestamps, LAMBDA ts : t - ts < suspicious_window)

\* _record_suspicious_activity: append, drop the old entries, block at 5.
record_suspicious_activity(requests, blocked, client_ip) ==
    LET old == IF client_ip \in DOMAIN requests THEN requests[client_ip] ELSE <<>>
        kept == recent_entries(Append(old, now), now)
    IN  [requests |-> rate_put(requests, client_ip, kept),
         blocked |-> IF Len(kept) >= suspicious_threshold
                     THEN blocked \cup {client_ip} ELSE blocked]

is_ip_blocked(ip) == ip \in blocked_ips

\* One request through the middleware (enable_rate_limiting is True,
\* main.py:40). suspicious is the answer of _is_suspicious_request for the
\* request; status 0 stands for the response of call_next.
dispatch(client_ip, suspicious, rate_type, bearer) ==
    LET rec == record_suspicious_activity(suspicious_requests, blocked_ips, client_ip)
        out == check_rate_limit_outcome(in_memory_store, redis_rate,
                                        identity_key(bearer, client_ip), rate_type)
        resp == [NoLast EXCEPT !.op = "dispatch", !.ip = client_ip, !.tok = bearer,
                               !.rate_type = rate_type]
    IN  /\ IF is_ip_blocked(client_ip) THEN
              /\ last' = [resp EXCEPT !.status = 403, !.detail = "Access denied"]
              /\ UNCHANGED <<blockVars, in_memory_store, redis_rate>>
           ELSE IF suspicious THEN
              /\ suspicious_requests' = rec.requests
              /\ blocked_ips' = rec.blocked
              /\ suspLog' = [suspLog EXCEPT ![client_ip] = Append(@, now)]
              /\ last' = [resp EXCEPT !.status = 400, !.detail = "Bad request"]
              /\ UNCHANGED <<in_memory_store, redis_rate>>
           ELSE
              /\ in_memory_store' = out.mem
              /\ redis_rate' = out.red
              /\ last' = [resp EXCEPT !.status = out.status, !.detail = out.detail,
                                      !.retry_after = out.retry_after,
                                      !.allowed = out.status = 0,
                                      !.handled = out.status = 0]
              /\ UNCHANGED blockVars
        /\ UNCHANGED <<cfgVars, stepVars, clockVars, sessVars, tokVars, revVars, guardVars,
                       histVars, rlStart, rlCalls, rlDenied, rl_inflight, rlAdmitted>>

\* -------------------------------------------------- secure_login, in steps
\* With the shared cache the counters are read and written by every worker
\* process, and the requests of different workers interleave at the store
\* calls. The first part of secure_login for request p: the two check calls.
\* A request that is not refused goes on to the user table and the verifier.
secure_login_checks(p, username, password_ok, ip) ==
    LET out == LoginOutcome(username, password_ok, ip)
    IN  /\ USE_REDIS /\ ~StoreRaises
        /\ lg_inflight[p] = NoLogin
        /\ IF out.status \in {423, 429}
           THEN /\ refused_login(out, username, password_ok, ip)
                /\ UNCHANGED lg_inflight
           ELSE /\ lg_inflight' = [lg_inflight EXCEPT ![p] =
                                      [username |-> username, ip |-> ip,
                                       password_ok |-> password_ok]]
                /\ last' = [NoLast EXCEPT !.op = "login_checks", !.ip = ip,
                                          !.identifier = username,
                                          !.password_ok = password_ok]
                /\ UNCHANGED <<sessVars, tokVars, guardVars>>
        /\ UNCHANGED <<cfgVars, rf_inflight, rt_inflight, rateVars, clockVars, blockVars, revVars, histVars>>

\* The rest of request p: "user and verify_password(...)", then reset and
\* create_session, or the two record_failure calls and the 401.
secure_login_verify(p) ==
    LET rq == lg_inflight[p]
        username == rq.username
        ip == rq.ip
    IN  /\ rq # NoLogin
        /\ ~StoreRaises
        /\ lg_inflight' = [lg_inflight EXCEPT ![p] = NoLogin]
        /\ failed_attempts' = failed_attempts
        /\ IF UserIdOf(username) # 0 /\ rq.password_ok THEN
              /\ redis_attempts' = reset_redis(reset_redis(redis_attempts, ip), username)
              /\ bfCount' = BfAfterReset(BfAfterReset(bfCount, ip, 0), username, 0)
              /\ bfStart' = BfAfterReset(BfAfterReset(bfStart, ip, -1), username, -1)
              /\ bfLast' = BfAfterReset(BfAfterReset(bfLast, ip, -1), username, -1)
              /\ pairFails' = PairFailsAfterReset(pairFails, username, ip)
              /\ pairLast' = pairLast
              /\ create_session(UserIdOf(username), ip, FALSE)
           ELSE
              /\ redis_attempts' =
                     record_failure_redis(record_failure_redis(redis_attempts, ip), username)
              /\ bfCount' = BfAfterFailure(BfAfterFailure(bfCount, ip), username)
              /\ bfStart' = BfStartAfterFailure(BfStartAfterFailure(bfStart, ip), username)
              /\ bfLast' = BfAfterReset(BfAfterReset(bfLast, ip, now), username, now)
              /\ pairFails' = PairFailsAfterFailure(pairFails, pairLast, username, ip)
              /\ pairLast' = [pairLast EXCEPT ![<<username, ip>>] = now]
              /\ last' = [NoLast EXCEPT !.op = "login", !.status = 401,
                                        !.detail = "Invalid credentials", !.ip = ip,
                                        !.identifier = username, !.password_ok = rq.password_ok,
                                        !.db_queried = TRUE,
                                        !.password_verified = UserIdOf(username) # 0]
              /\ UNCHANGED <<sessVars, tokVars>>
        /\ UNCHANGED <<cfgVars, rf_inflight, rt_inflight, rateVars, clockVars, blockVars, revVars, histVars>>

\* ------------------------------------------------- the shared cache fails
redis_goes_down ==
    /\ redis_available
    /\ redis_available' = FALSE
    /\ last' = [NoLast EXCEPT !.op = "redis_down"]
    /\ UNCHANGED <<stepVars, USE_REDIS, strict_ip_validation, MW_USE_REDIS, rateVars, clockVars, blockVars, sessVars,
                   tokVars, revVars, guardVars, histVars>>

redis_comes_back ==
    /\ ~redis_available
    /\ redis_available' = TRUE
    /\ last' = [NoLast EXCEPT !.op = "redis_up"]
    /\ UNCHANGED <<stepVars, USE_REDIS, strict_ip_validation, MW_USE_REDIS, rateVars, clockVars, blockVars, sessVars,
                   tokVars, revVars, guardVars, histVars>>

\* ------------------------------------------- BruteForceGuard, called directly
bf_check(id) ==
    /\ last' = [NoLast EXCEPT !.op = "check", !.identifier = id, !.blocked = check(id).blocked,
                              !.attempts = check(id).attempts,
                              !.retry_after = check(id).retry_after]
    /\ UNCHANGED <<cfgVars, stepVars, rateVars, clockVars, blockVars, sessVars, tokVars, revVars, guardVars, histVars>>

bf_record_failure(id) ==
    /\ failed_attempts' = IF USE_REDIS THEN failed_attempts ELSE record_failure_mem(failed_attempts, id)
    /\ redis_attempts' = IF USE_REDIS THEN record_failure_redis(redis_attempts, id) ELSE redis_attempts
    /\ bfCount' = BfAfterFailure(bfCount, id)
    /\ bfStart' = BfStartAfterFailure(bfStart, id)
    /\ bfLast' = BfAfterReset(bfLast, id, now)
    /\ last' = [NoLast EXCEPT !.op = "record_failure", !.identifier = id]
    /\ UNCHANGED <<cfgVars, stepVars, rateVars, clockVars, blockVars, sessVars, tokVars, revVars, pairFails, pairLast, histVars>>

bf_reset(id) ==
    /\ failed_attempts' = IF USE_REDIS THEN failed_attempts ELSE reset_mem(failed_attempts, id)
    /\ redis_attempts' = IF USE_REDIS THEN reset_redis(redis_attempts, id) ELSE redis_attempts
    /\ bfCount' = BfAfterReset(bfCount, id, 0)
    /\ bfStart' = BfAfterReset(bfStart, id, -1)
    /\ bfLast' = BfAfterReset(bfLast, id, -1)
    /\ pairFails' = [p \in DOMAIN pairFails |-> IF p[1] = id \/ p[2] = id THEN 0 ELSE pairFails[p]]
    /\ last' = [NoLast EXCEPT !.op = "reset", !.identifier = id]
    /\ UNCHANGED <<cfgVars, stepVars, rateVars, clockVars, blockVars, sessVars, tokVars, revVars, pairLast, histVars>>

\* ----------------------------------------------------------- specifications
ClientIP == "9.9.9.9"

\* One session from login to expiry or revocation, with the clock.
Next ==
    \/ \E t \in NextInstants : ticks < MaxTicks /\ Tick(t)
    \/ \E u \in Usernames, rm \in BOOLEAN :
          /\ nextSid <= MaxSessions /\ nextJti + 1 <= MaxTokens
          /\ secure_login(u, TRUE, ClientIP, rm)
    \/ \E tok \in issued, sid \in SidCookies : get_current_user_from_cookie(tok, sid, ClientIP)
    \/ \E sid \in SidCookies : get_current_user_secure(sid, ClientIP)
    \/ \E tok \in issued, sid \in SidCookies :
          /\ nextJti <= MaxTokens
          /\ refresh_token(tok, sid, ClientIP)
    \/ \E a \in AccessCookies, r \in RefreshCookies, sid \in SidCookies : secure_logout(a, r, sid)
    \/ \E sid \in SidCookies : change_password(sid, ClientIP)

Spec == Init /\ [][Next]_vars

\* ------------------------------------------------------------------- claims
\* C1: right after a successful login, authenticate with the returned access
\* token (and the session cookie that login set) succeeds and resolves to the
\* user id and the session id of the session that login created.  The request
\* comes from the login's address when strict IP binding is configured.
C1_LoginThenAuthenticate ==
    (last.op = "login" /\ last.status = 200) =>
        \A ip \in IPs :
            (strict_ip_validation => ip = last.ip) =>
                LET out == AuthOutcome(last.access, last.session_id, ip)
                IN /\ out.status = 200
                   /\ out.user_id = last.user_id
                   /\ out.session_id = last.session_id

\* An authenticate that succeeded with the access token of a login made at
\* this very instant, no other token having been issued since.
C1_Witness ==
    /\ last.op = "authenticate" /\ last.status = 200
    /\ last.tok.type = "access" /\ last.tok.iat = now
    /\ last.tok.jti = nextJti - 2
    /\ last.user_id = IntOf(last.tok.sub)
    /\ last.session_id = last.tok.session_id

\* C2: after a logout that presented the access token, the refresh token and
\* the session id of one login, authenticate with that access token fails
\* (401) at every later time, and validate_session on that session id returns
\* None.
C2_LogoutRevokes ==
    \A e \in loggedOut :
        /\ \A sid \in SidCookies, ip \in IPs : AuthOutcome(e.tok, sid, ip).status = 401
        /\ \A ip \in IPs : validate_session(e.sid, ip) = None

\* The scenario of the claim: remember_me = false, the token authenticated
\* until the logout, and an authenticate with it has been refused since.
C2_Witness ==
    \E e \in loggedOut :
        /\ ~e.remember_me /\ e.authed
        /\ last.op = "authenticate" /\ last.tok = e.tok /\ last.status = 401

\* C5: a token handed to the denylist is refused (401) by authenticate and by
\* refresh at every time before its exp.
C5_DeniedUntilExp ==
    \A e \in denied :
        now < e.tok.exp =>
            \A sid \in SidCookies, ip \in IPs :
                /\ AuthOutcome(e.tok, sid, ip).status = 401
                /\ RefreshOutcome(e.tok, sid, ip).status = 401

\* A denied token was presented at a later time, still before its exp, while
\* its session was alive, and was refused as revoked.
C5_Witness ==
    \E e \in denied :
        /\ e.at < now /\ now < e.tok.exp
        /\ last.op \in {"authenticate", "refresh"} /\ last.tok = e.tok
        /\ last.status = 401 /\ last.detail = "Token revoked"
        /\ session_get(e.tok.session_id) # None

\* C6: after the exp of a denied token neither registry holds an entry for its
\* jti, so the registries never hold more entries than there are denied tokens
\* that have not expired.
RegistryEntries == IF USE_REDIS THEN DOMAIN redis_revoked ELSE revoked_jtis
C6_RegistryBounded ==
    /\ \A e \in denied : now > e.tok.exp => e.tok.jti \notin RegistryEntries
    /\ Cardinality(RegistryEntries) <= Cardinality({e \in denied : now <= e.tok.exp})

\* C9: once validate_session has run on a session after its expires_at, the
\* call returned None, the record is gone from the store, and every later
\* validate_session for that session id returns None.
C9_ExpiredStaysInvalid ==
    /\ \A s \in expiredSeen :
          /\ s \notin DOMAIN session_store
          /\ s \notin DOMAIN redis_session
          /\ \A ip \in IPs : validate_session(s, ip) = None
    /\ (last.op = "me" /\ last.session_id \in expiredSeen) => last.status = 401

\* /me validated a session after its expires_at and answered 401.
C9_Witness ==
    /\ last.op = "me" /\ last.status = 401
    /\ last.session_id \in expiredSeen
    /\ now > sessExp[last.session_id]

\* Forged tokens: the honest handlers, with authenticate fed every issued token
\* and its variants with a bad signature, a foreign aud or a foreign iss.
NextForged ==
    \/ \E t \in NextInstants : ticks < MaxTicks /\ Tick(t)
    \/ \E u \in Usernames, rm \in BOOLEAN :
          /\ nextSid <= MaxSessions /\ nextJti + 1 <= MaxTokens
          /\ secure_login(u, TRUE, ClientIP, rm)
    \/ \E tok \in TokenInputs, sid \in SidCookies : get_current_user_from_cookie(tok, sid, ClientIP)
    \/ \E a \in AccessCookies, r \in RefreshCookies, sid \in SidCookies : secure_logout(a, r, sid)

SpecForged == Init /\ [][NextForged]_vars

\* C10: authenticate accepts an access token exactly when its signature
\* verifies, its aud and its iss are those of the service, now < exp, its jti
\* is not in the revocation registry and its session is active and unexpired.
SessionActive(sid) ==
    LET data == session_get(sid) IN data # None /\ data.active /\ now <= data.expires_at
C10_AcceptIff ==
    (last.op = "authenticate" /\ last.tok # NoToken /\ last.tok.type = "access") =>
        (last.status = 200 <=>
            /\ last.tok.sig = "ok"
            /\ last.tok.aud = AUD
            /\ last.tok.iss = ISS
            /\ now < last.tok.exp
            /\ last.tok.jti \notin RegistryEntries
            /\ SessionActive(last.tok.session_id))

\* Password change: several sessions of the two users, their tokens, the clock.
NextPw ==
    \/ \E t \in NextInstants : ticks < PwTicks /\ Tick(t)
    \/ \E u \in Usernames, rm \in BOOLEAN :
          /\ nextSid <= PwSessions /\ nextJti + 1 <= PwTokens
          /\ secure_login(u, TRUE, ClientIP, rm)
    \/ \E tok \in issued : get_current_user_from_cookie(tok, tok.session_id, ClientIP)
    \/ \E tok \in issued :
          /\ nextJti <= PwTokens
          /\ refresh_token(tok, tok.session_id, ClientIP)
    \/ \E sid \in SidCookies : change_password(sid, ClientIP)

SpecPw == Init /\ [][NextPw]_vars

\* C4: after change_password for a user who had two live sessions, authenticate
\* with any token bound to either of those sessions fails (401) from then on.
C4_PasswordChangeRevokesAll ==
    \A s \in pwRevoked :
        \A tok \in issued :
            tok.session_id = s =>
                \A sid \in SidCookies, ip \in IPs : AuthOutcome(tok, sid, ip).status = 401

\* Two sessions were removed by one change_password, and an access token of
\* one of them, still before its exp, has been refused since.
C4_Witness ==
    /\ Cardinality(pwRevoked) >= 2
    /\ last.op = "authenticate" /\ last.status = 401
    /\ last.tok.type = "access" /\ last.tok.session_id \in pwRevoked
    /\ now < last.tok.exp

\* The guard alone: check, record_failure and reset on a username and an
\* address, and the clock.
GuardIds == {"alice", "9.9.9.9"}
NextGuard ==
    \/ \E t \in NextInstants : ticks < GuardTicks /\ Tick(t)
    \/ \E id \in GuardIds : bf_check(id)
    \/ \E id \in GuardIds : bfCount[id] < MaxFailures /\ bf_record_failure(id)
    \/ \E id \in GuardIds : bf_reset(id)

SpecGuard == Init /\ [][NextGuard]_vars

\* Logins with right and wrong passwords from two addresses, and the clock.
LockUsers == {"alice"}
\* The instants around the deadlines of the guard: the TTL of a counter in the
\* shared cache and the end of a lockout window.
GuardInstants ==
    {t \in NextInstants :
        \E d \in {redis_attempts[i].expire_at : i \in DOMAIN redis_attempts}
                 \cup {bfLast[i] + lockout_seconds : i \in {x \in Identifiers : bfLast[x] >= 0}}
                 \cup {pairLast[p] + lockout_seconds : p \in {x \in DOMAIN pairLast : pairLast[x] >= 0}} :
            t \in {d - 1, d}}
NextLock ==
    \/ \E t \in GuardInstants : ticks < LockTicks /\ Tick(t)
    \/ \E u \in LockUsers, ok \in BOOLEAN, ip \in IPs :
          /\ LoginOutcome(u, ok, ip).status = 200 =>
                nextSid <= LockSessions /\ nextJti + 1 <= MaxTokens
          /\ secure_login(u, ok, ip, FALSE)

SpecLock == Init /\ [][NextLock]_vars

\* C3: once 5 logins of one username from one address have failed within the
\* lockout window, a further login with that username from that address is
\* refused by the guard with a retry delay of 900 seconds, whatever the
\* password (the refusal is the 429 of the address check, which comes first).
C3_SixthAttemptLocked ==
    \A u \in Usernames, ip \in IPs :
        (pairFails[<<u, ip>>] >= 5 /\ now < pairLast[<<u, ip>>] + lockout_seconds) =>
            \A ok \in BOOLEAN :
                /\ LoginOutcome(u, ok, ip).status = 429
                /\ LoginOutcome(u, ok, ip).retry_after = 900

\* A login with the correct password was rejected by the guard after 5
\* failures of the same username from the same address.
C3_Witness ==
    /\ last.op = "login" /\ last.status = 429 /\ last.retry_after = 900
    /\ last.password_ok /\ UserIdOf(last.identifier) # 0
    /\ pairFails[<<last.identifier, last.ip>>] >= 5
    /\ now < pairLast[<<last.identifier, last.ip>>] + lockout_seconds

\* C7: while all record_failure calls since the last reset of an identifier lie
\* within one lockout window, check reports attempts = their number and
\* blocked exactly when that number is at least 5; after a reset that is
\* attempts = 0 and blocked = false.
InWindow(id) == bfStart[id] = -1 \/ now < bfStart[id] + lockout_seconds
C7_BlockedIffFiveFailures ==
    /\ \A id \in Identifiers :
          InWindow(id) =>
              /\ check(id).attempts = bfCount[id]
              /\ check(id).blocked <=> bfCount[id] >= 5
    /\ (last.op = "check" /\ InWindow(last.identifier)) =>
          /\ last.attempts = bfCount[last.identifier]
          /\ last.blocked <=> bfCount[last.identifier] >= 5
    /\ (last.op = "reset") =>
          /\ ~check(last.identifier).blocked
          /\ check(last.identifier).attempts = 0

\* check reported blocked after exactly 5 failures, with time having passed
\* inside the window.
C7_Witness ==
    /\ last.op = "check" /\ last.blocked /\ last.attempts = 5
    /\ bfCount[last.identifier] = 5
    /\ bfStart[last.identifier] < now /\ InWindow(last.identifier)

\* The rate limiter alone, called sequentially, and the clock.
NextRate ==
    \/ \E t \in NextInstants : ticks < RateTicks /\ Tick(t)
    \/ \E ip \in RateIPs, ty \in RateTypes :
          /\ CallsAfter(<<ty, ip>>) <= MaxCalls
          /\ check_rate_limit_for_type(ip, ty)

SpecRate == Init /\ [][NextRate]_vars

\* C8: under sequential calls the k-th call of a window of a (rate type,
\* address) is allowed exactly when k <= max_requests, in both stores; a call
\* made once the window has elapsed opens a new window and is allowed.
C8_FixedWindow ==
    /\ last.op = "allow" =>
          (last.allowed <=>
              rlCalls[<<last.rate_type, last.ip>>] <= rate_limits[last.rate_type].requests)
    /\ \A key \in RateKeys :
          LET config == rate_limits[key[1]]
              r == IF MW_USE_REDIS
                   THEN redis_rate_limit(redis_rate, key, config.requests, config.window)
                   ELSE memory_rate_limit(in_memory_store, key, config.requests, config.window)
          IN  r.allowed <=> CallsAfter(key) <= config.requests

\* The first call of a window was allowed for a key that had a call refused in
\* an earlier window.
C8_Witness ==
    /\ last.op = "allow" /\ last.allowed
    /\ <<last.rate_type, last.ip>> \in rlDenied
    /\ rlCalls[<<last.rate_type, last.ip>>] = 1
    /\ rlStart[<<last.rate_type, last.ip>>] = now /\ now > 0

\* C11: a login made while the address or the username is blocked by the guard
\* is refused with 423 or 429, runs neither the user lookup nor the password
\* verifier, and leaves sessions, tokens and counters as they were.
C11_BlockedSkipsCredentials ==
    [][\A u \in LockUsers, ip \in IPs :
          ((check(ip).blocked \/ check(u).blocked)
           /\ last'.op = "login" /\ last'.identifier = u /\ last'.ip = ip) =>
              /\ last'.status \in {423, 429}
              /\ ~last'.db_queried /\ ~last'.password_verified
              /\ UNCHANGED <<sessVars, tokVars, guardVars>>]_vars

\* A login with the correct password was refused with 423: the username was
\* blocked, the address was not, and the user table was not read.
C11_Witness ==
    /\ last.op = "login" /\ last.status = 423 /\ last.password_ok
    /\ ~last.db_queried /\ ~last.password_verified
    /\ check(last.identifier).blocked /\ ~check(last.ip).blocked

\* C12: once the lockout window has elapsed since the last recorded failure of
\* an identifier, check reports it as not blocked and the next record_failure
\* sets its count to 1, in the shared cache and in the in-process store.
WindowElapsed(id) == bfLast[id] >= 0 /\ now >= bfLast[id] + lockout_seconds
CountAfterFailure(id) ==
    IF USE_REDIS THEN record_failure_redis(redis_attempts, id)[id].count
    ELSE record_failure_mem(failed_attempts, id)[id]
C12_WindowElapsedUnlocks ==
    \A id \in Identifiers :
        WindowElapsed(id) => ~check(id).blocked /\ CountAfterFailure(id) = 1

\* C13: a login that passes both guard checks and fails the credentials adds
\* exactly one to the counter of the address and one to the counter of the
\* username, answers 401, creates no session and issues no token.
C13_FailureCountsOnceEach ==
    [][\A u \in LockUsers, ip \in IPs :
          (last'.op = "login" /\ last'.status = 401
           /\ last'.identifier = u /\ last'.ip = ip) =>
              /\ ~check(ip).blocked /\ ~check(u).blocked
              /\ attempts_of(ip)' = attempts_of(ip) + 1
              /\ attempts_of(u)' = attempts_of(u) + 1
              /\ UNCHANGED <<sessVars, tokVars>>]_vars

\* A wrong password was answered 401 and the username's counter, fed from two
\* addresses, is ahead of the address's counter.
C13_Witness ==
    /\ last.op = "login" /\ last.status = 401 /\ ~last.password_ok
    /\ last.db_queried /\ last.password_verified
    /\ attempts_of(last.identifier) = 3 /\ attempts_of(last.ip) = 1

\* C14: authenticate refuses every token whose type is not "access" and
\* refresh refuses every token whose type is not "refresh", whatever the rest
\* of the chain says.
C14_TypesNotInterchangeable ==
    /\ \A tok \in issued, sid \in SidCookies, ip \in IPs :
          /\ tok.type # "access" => AuthOutcome(tok, sid, ip).status = 401
          /\ tok.type # "refresh" => RefreshOutcome(tok, sid, ip).status = 401
    /\ (last.op = "authenticate" /\ last.tok # NoToken /\ last.tok.type # "access") =>
          last.status = 401
    /\ (last.op = "refresh" /\ last.tok # NoToken /\ last.tok.type # "refresh") =>
          last.status = 401 /\ last.access = NoToken

\* A refresh token that decodes, is not revoked and belongs to an active
\* session was presented to authenticate and refused for its type.
C14_Witness ==
    /\ last.op = "authenticate" /\ last.status = 401 /\ last.detail = "Invalid token type"
    /\ last.tok.type = "refresh" /\ jwt_decode(last.tok) /\ ~is_jti_revoked(last.tok.jti)
    /\ validate_session(last.tok.session_id, ClientIP) # None

\* C15: a successful refresh issues an access token with the sub and the
\* session_id of the refresh token, changes neither the session records nor
\* the revocation registry nor the refresh token, and the same refresh token
\* is accepted again right afterwards.
C15_RefreshKeepsRefreshToken ==
    [][(last'.op = "refresh" /\ last'.status = 200) =>
          /\ last'.tok.type = "refresh" /\ last'.tok \in issued
          /\ last'.access.type = "access" /\ last'.access \notin issued
          /\ last'.access.sub = last'.tok.sub
          /\ last'.access.session_id = last'.tok.session_id
          /\ issued' = issued \cup {last'.access}
          /\ UNCHANGED <<session_store, redis_session, revVars>>
          /\ RefreshOutcome(last.tok, last.tok.session_id, ClientIP)'.status = 200]_vars

\* The same refresh token has been refreshed twice: its session has three
\* access tokens, the login's and two newer ones.
C15_Witness ==
    /\ last.op = "refresh" /\ last.status = 200
    /\ Cardinality({t \in issued : t.type = "access"
                                   /\ t.session_id = last.tok.session_id}) >= 3

\* Logout fed the issued tokens, their variants with a bad signature, and
\* missing cookies; logins and the clock.
BadSig(toks) == {[t EXCEPT !.sig = "bad"] : t \in toks}
LogoutAccess == AccessCookies \cup BadSig(AccessCookies \ {NoToken})
LogoutRefresh == RefreshCookies \cup BadSig(RefreshCookies \ {NoToken})
NextLogout ==
    \/ \E t \in NextInstants : ticks < MaxTicks /\ Tick(t)
    \/ \E u \in Usernames, rm \in BOOLEAN :
          /\ nextSid <= MaxSessions /\ nextJti + 1 <= MaxTokens
          /\ secure_login(u, TRUE, ClientIP, rm)
    \/ \E a \in LogoutAccess, r \in LogoutRefresh, sid \in SidCookies :
          secure_logout_observed(a, r, sid)

SpecLogout == Init /\ [][NextLogout]_vars

\* C16: logout denies the jti of every presented token that decodes, up to the
\* token's exp; a presented token that does not decode is skipped and adds
\* nothing to the registry; the session named by the session cookie is
\* invalidated and the answer is a success, in every case.
C16_LogoutBestEffort ==
    /\ \A p \in logoutSeen :
          (p.decoded /\ now < p.tok.exp) =>
              /\ is_jti_revoked(p.tok.jti)
              /\ USE_REDIS => redis_revoked[p.tok.jti] = p.tok.exp
    /\ \A j \in RegistryEntries : \E p \in logoutSeen : p.decoded /\ p.tok.jti = j
    /\ last.op = "logout" =>
          /\ last.status = 200
          /\ last.session_id # NoSid => session_get(last.session_id) = None

\* One logout at the current time skipped a token of the session that did not
\* decode and denied another token of the same session, and the session is gone.
C16_Witness ==
    /\ last.op = "logout" /\ last.status = 200 /\ last.session_id # NoSid
    /\ session_get(last.session_id) = None
    /\ \E i \in logoutSeen, e \in logoutSeen :
          /\ i.at = now /\ e.at = now /\ ~i.decoded /\ e.decoded
          /\ i.tok.session_id = last.session_id /\ e.tok.session_id = last.session_id
          /\ i.tok.jti # e.tok.jti
          /\ ~is_jti_revoked(i.tok.jti) /\ is_jti_revoked(e.tok.jti)

\* The rate limiter with the shared cache going down and coming back.
NextRateOutage ==
    \/ \E t \in NextInstants : ticks < OutageTicks /\ Tick(t)
    \/ \E ip \in RateIPs, ty \in RateTypes :
          /\ CallsAfter(<<ty, ip>>) <= OutageCalls
          /\ check_rate_limit_for_type(ip, ty)
    \/ redis_goes_down
    \/ redis_comes_back

SpecRateOutage == Init /\ [][NextRateOutage]_vars

\* C17: while the shared cache is down, every call of the limiter that uses it
\* is allowed, for every rate type and address.
C17_LimiterFailsOpen ==
    (MW_USE_REDIS /\ ~redis_available) =>
        /\ last.op = "allow" => last.allowed
        /\ \A key \in RateKeys :
              redis_rate_limit(redis_rate, key, rate_limits[key[1]].requests,
                               rate_limits[key[1]].window).allowed

\* A call beyond max_requests in its window was allowed while the shared cache
\* was down, for a key that had been refused before.
C17_Witness ==
    /\ MW_USE_REDIS /\ ~redis_available
    /\ last.op = "allow" /\ last.allowed
    /\ <<last.rate_type, last.ip>> \in rlDenied
    /\ rlCalls[<<last.rate_type, last.ip>>] > rate_limits[last.rate_type].requests

\* Logins with right and wrong passwords, authenticate and refresh, with the
\* shared cache going down and coming back.
NextOutage ==
    \/ \E ok \in BOOLEAN :
          /\ LoginOutcome("alice", ok, ClientIP).status = 200 =>
                nextSid <= MaxSessions /\ nextJti + 1 <= MaxTokens
          /\ secure_login("alice", ok, ClientIP, FALSE)
    \/ \E tok \in issued : get_current_user_from_cookie(tok, tok.session_id, ClientIP)
    \/ \E tok \in issued :
          /\ nextJti <= MaxTokens
          /\ refresh_token(tok, tok.session_id, ClientIP)
    \/ redis_goes_down
    \/ redis_comes_back

SpecOutage == Init /\ [][NextOutage]_vars

\* C18: when the denylist lookup cannot reach the shared cache, authenticate
\* and refresh do not accept the token and answer with a 503.
C18_DenylistOutageIs503 ==
    (StoreRaises /\ last.op \in {"authenticate", "refresh"}
     /\ jwt_decode(last.tok)
     /\ last.tok.type = (IF last.op = "authenticate" THEN "access" ELSE "refresh")) =>
        last.status = 503

\* C19: when the guard cannot reach the shared cache, a login still gets to
\* the credentials check, is not answered as locked out, and a wrong password
\* is answered 401.
C19_GuardOutageFailsOpen ==
    (StoreRaises /\ last.op = "login") =>
        /\ last.db_queried
        /\ last.status \notin {423, 429}
        /\ ~last.password_ok => last.status = 401

\* Concurrent calls of the limiter on the shared cache, interleaved at their
\* awaits; no time passes, so every call falls in one window.
RaceTypes == {"register"}
NextRace ==
    \/ \E p \in RaceProcs, ip \in RateIPs, ty \in RaceTypes : redis_rate_limit_get(p, ip, ty)
    \/ \E p \in RaceProcs : redis_rate_limit_put(p)

SpecRace == Init /\ [][NextRace]_vars

\* C20: whatever the interleaving of concurrent calls for one (rate type,
\* address) on the shared cache, at most max_requests of them are allowed
\* within one window.
C20_NeverOverAdmits ==
    \A key \in RateKeys : rlAdmitted[key] <= rate_limits[key[1]].requests

\* Concurrent record_failure calls, interleaved at their store calls, and
\* check; no reset and no time passing.
NextFailRace ==
    \/ \E p \in RaceProcs, id \in GuardIds :
          bfCount[id] < MaxFailures /\ record_failure_incr(p, id)
    \/ \E p \in RaceProcs : record_failure_expire(p)
    \/ \E id \in GuardIds : bf_check(id)

SpecFailRace == Init /\ [][NextFailRace]_vars

\* C21: whatever the interleaving of concurrent record_failure calls of one
\* identifier, once n of them have made their increment (no reset, no window
\* expiry) check reports attempts = n.
C21_NoLostFailure ==
    /\ \A id \in Identifiers : check(id).attempts = bfCount[id]
    /\ last.op = "check" => last.attempts = bfCount[last.identifier]

\* check reported the three failures of one identifier, two of them recorded
\* by calls that overlapped (one still has its EXPIRE to do).
C21_Witness ==
    /\ last.op = "check" /\ last.attempts = 3 /\ bfCount[last.identifier] = 3
    /\ \E p \in RaceProcs : rf_inflight[p] = last.identifier

\* The middleware's limiter and one user who logs in once: requests of one
\* path category with or without a bearer token, from two addresses.
MwTypes == {"register"}
MwBearers ==
    LET access == {t \in issued : t.type = "access"}
    IN  access \cup UNION {Forged(t) : t \in access} \cup {NoToken}
MwIdentities == IPs \cup {t.sub : t \in issued}

\* The clock stops at the last second of a rate window and at its end.
MwInstants ==
    {t \in NextInstants :
        \E k \in DOMAIN in_memory_store :
            t \in {in_memory_store[k].window_start + rate_limits[k[1]].window - 1,
                   in_memory_store[k].window_start + rate_limits[k[1]].window}}
    \cup {t \in NextInstants :
            \E k \in DOMAIN redis_rate : t \in {redis_rate[k].expire_at - 1, redis_rate[k].expire_at}}

NextMw ==
    \/ \E t \in MwInstants : ticks < MwTicks /\ Tick(t)
    \/ issued = {} /\ secure_login("alice", TRUE, ClientIP, FALSE)
    \/ \E ty \in MwTypes, b \in MwBearers, ip \in IPs : check_rate_limit(ty, b, ip)

SpecMw == Init /\ [][NextMw]_vars

\* The requests counted for a key in its current window, and whether one more
\* fits under the limit of the key's rate type.
RateCount(key) ==
    IF MW_USE_REDIS
    THEN IF key \in DOMAIN redis_rate /\ now < redis_rate[key].expire_at
         THEN redis_rate[key].val ELSE 0
    ELSE IF key \in DOMAIN in_memory_store
            /\ now < in_memory_store[key].window_start + rate_limits[key[1]].window
         THEN in_memory_store[key].count ELSE 0
WithinLimit(key) == RateCount(key) < rate_limits[key[1]].requests

\* The stores with n requests already counted for a key in a window opened now.
WithCount(key, n) ==
    [mem |-> rate_put(in_memory_store, key, [count |-> n, window_start |-> now]),
     red |-> rate_put(redis_rate, key, [val |-> n, expire_at |-> now + rate_limits[key[1]].window])]

\* C22: a request is admitted exactly when its category limit and the global
\* limit of the same identity both have room; the global counter counts every
\* request that passes its category limit and no other; with the global counter
\* at its ceiling a request whose category has room gets 429 "Global rate limit
\* exceeded", and one request below the ceiling it is admitted.
C22_GlobalCeiling ==
    /\ [](\A id \in MwIdentities, ty \in MwTypes :
            LET glob == <<"global", id>>
                full == WithCount(glob, rate_limits["global"].requests)
                room == WithCount(glob, rate_limits["global"].requests - 1)
                atCeiling == check_rate_limit_outcome(full.mem, full.red, id, ty)
                below == check_rate_limit_outcome(room.mem, room.red, id, ty)
            IN  WithinLimit(<<ty, id>>) =>
                    /\ atCeiling.status = 429
                    /\ atCeiling.detail = "Global rate limit exceeded"
                    /\ below.status = 0)
    /\ [][\A id \in MwIdentities, ty \in MwTypes :
            (last'.op = "rate_limit" /\ last'.identifier = id /\ last'.rate_type = ty) =>
                /\ last'.status \in {0, 429}
                /\ (last'.status = 0) <=> (WithinLimit(<<ty, id>>) /\ WithinLimit(<<"global", id>>))
                /\ RateCount(<<"global", id>>)' =
                      IF WithinLimit(<<ty, id>>) /\ WithinLimit(<<"global", id>>)
                      THEN RateCount(<<"global", id>>) + 1 ELSE RateCount(<<"global", id>>)]_vars

\* A request was refused by its category limit after three were admitted: the
\* global counter of the identity stands at three.
C22_Witness ==
    /\ last.op = "rate_limit" /\ last.status = 429 /\ last.detail = "Rate limit exceeded"
    /\ RateCount(<<"global", last.identifier>>) = rate_limits[last.rate_type].requests
    /\ RateCount(<<last.rate_type, last.identifier>>) = rate_limits[last.rate_type].requests

\* The identity the limiter should count a request under: the subject of a
\* bearer token that was issued with the server's key and has not expired, the
\* client address otherwise.
ExpectedIdentity ==
    IF last.tok \in issued /\ now <= last.tok.exp THEN last.tok.sub ELSE last.ip

\* C23: the limiter counts a request under the subject of its bearer token
\* when the token verifies, and under the client address otherwise (no token,
\* bad signature, wrong audience or issuer, expired); the counters of every
\* other identity are left as they were.
C23_IdentityIsSubjectOrIp ==
    /\ [](last.op = "rate_limit" => last.identifier = ExpectedIdentity)
    /\ [][\A id \in MwIdentities, ty \in MwTypes \cup {"global"} :
            (last'.op = "rate_limit" /\ ExpectedIdentity' # id) =>
                RateCount(<<ty, id>>)' = RateCount(<<ty, id>>)]_vars

\* Two admitted requests in a row from different addresses, the second with a
\* valid token: both were counted under the token's subject, none under an
\* address.
C23_Witness ==
    /\ last.op = "rate_limit" /\ last.status = 0
    /\ last.tok \in issued /\ last.identifier = last.tok.sub
    /\ last.prev_ip \notin {"", last.ip}
    /\ RateCount(<<last.rate_type, last.tok.sub>>) = 2
    /\ \A ip \in IPs : RateCount(<<last.rate_type, ip>>) = 0

\* C24: when invalidate_all_sessions(user_id) has run (change_password answers
\* 200), validate_session returns None for every session that belonged to the
\* user, from any address, and the records of every other user are what they
\* were.
C24_InvalidateAllFrame ==
    [][(last'.op = "change_password" /\ last'.status = 200) =>
          \A sid \in KnownSids :
              session_get(sid) # None =>
                  IF session_get(sid).user_id = last'.user_id
                  THEN \A ip \in IPs : validate_session(sid, ip)' = None
                  ELSE session_get(sid)' = session_get(sid)]_vars

\* A password change removed the caller's session while a session of another
\* user is still validated.
C24_Witness ==
    /\ last.op = "change_password" /\ last.status = 200
    /\ session_get(last.session_id) = None
    /\ \E sid \in KnownSids :
          /\ validate_session(sid, ClientIP) # None
          /\ validate_session(sid, ClientIP).user_id # last.user_id

\* The refresh tokens issued for a session, and the lifetime of a token.
RefreshTokensOf(sid) == {t \in issued : t.type = "refresh" /\ t.session_id = sid}
Lifetime(t) == t.exp - t.iat

\* C25: the refresh token of a login with remember_me = false lives strictly
\* shorter than the refresh token of a login with remember_me = true; every
\* access token has the short lifetime; every issued token has exp > iat.
C25_RefreshLifetimeByRememberMe ==
    /\ \A t \in issued : t.exp > t.iat
    /\ \A t \in issued : t.type = "access" => Lifetime(t) = ACCESS_TTL
    /\ \A s1, s2 \in KnownSids :
          (/\ session_get(s1) # None /\ ~session_get(s1).remember_me
           /\ session_get(s2) # None /\ session_get(s2).remember_me) =>
              \A t1 \in RefreshTokensOf(s1), t2 \in RefreshTokensOf(s2) :
                  Lifetime(t1) < Lifetime(t2)

\* What the caller sees of the rejections that authenticate and refresh give
\* to a presented token (any issued token or a variant with a bad signature or
\* foreign claims) together with a session cookie.
AuthRejections ==
    {[status |-> AuthOutcome(tok, sid, ClientIP).status,
      detail |-> AuthOutcome(tok, sid, ClientIP).detail] :
        <<tok, sid>> \in {x \in TokenInputs \X KnownSids :
                             AuthOutcome(x[1], x[2], ClientIP).status # 200}}
RefreshRejections ==
    {[status |-> RefreshOutcome(tok, sid, ClientIP).status,
      detail |-> RefreshOutcome(tok, sid, ClientIP).detail] :
        <<tok, sid>> \in {x \in TokenInputs \X KnownSids :
                             RefreshOutcome(x[1], x[2], ClientIP).status # 200}}

\* C26: whichever check rejects a presented token (signature, claims, token
\* type, expiry, denied jti, session), authenticate answers with one status and
\* one detail, and so does refresh.
C26_RejectionsIndistinguishable ==
    /\ \A r1, r2 \in AuthRejections : r1 = r2
    /\ \A r1, r2 \in RefreshRejections : r1 = r2

\* Logins of a known and of an unknown username from one address, with right
\* and wrong passwords, inside one lockout window.
EnumUsers == {"alice"} \cup UnknownUsers
NextEnum ==
    \/ \E u \in EnumUsers, ok \in BOOLEAN :
          /\ LoginOutcome(u, ok, ClientIP).status = 200 =>
                nextSid <= LockSessions /\ nextJti + 1 <= MaxTokens
          /\ secure_login(u, ok, ClientIP, FALSE)

SpecEnum == Init /\ [][NextEnum]_vars

\* What the caller sees of a login.
Visible(out) == [status |-> out.status, detail |-> out.detail, retry_after |-> out.retry_after]

\* C27: from one guard state (the same counter for the address, equal counters
\* for the two usernames) a login with an unknown username, whatever the
\* password, and a login with a known username and a wrong password get the
\* same status, detail and retry delay; the answer of every refused login is
\* 401 "Invalid credentials" with one failure added to the address and one to
\* the username, or a guard refusal with no counter changed.
C27_NoUsernameEnumeration ==
    /\ [](\A known \in Usernames, unknown \in UnknownUsers, ip \in IPs, pw \in BOOLEAN :
             attempts_of(known) = attempts_of(unknown) =>
                 Visible(LoginOutcome(unknown, pw, ip)) = Visible(LoginOutcome(known, FALSE, ip)))
    /\ [][\A u \in EnumUsers, ip \in IPs :
            (last'.op = "login" /\ last'.identifier = u /\ last'.ip = ip /\ last'.status # 200) =>
                /\ last'.status = 401 => last'.detail = "Invalid credentials"
                /\ attempts_of(ip)' = attempts_of(ip) + (IF last'.status = 401 THEN 1 ELSE 0)
                /\ attempts_of(u)' = attempts_of(u) + (IF last'.status = 401 THEN 1 ELSE 0)]_vars

\* An unknown username was answered 401 without the verifier being called,
\* when it and the known username both have two failures from the address.
C27_Witness ==
    /\ last.op = "login" /\ last.status = 401 /\ last.identifier \in UnknownUsers
    /\ last.db_queried /\ ~last.password_verified
    /\ attempts_of(last.identifier) = 2 /\ attempts_of("alice") = 2
    /\ attempts_of(last.ip) = 4

C29_LoginOrder ==
    [][\A u \in LockUsers, ip \in IPs :
          (last'.op = "login" /\ last'.ip = ip) =>
              IF last'.status = 200
              THEN /\ last'.user_id = UserIdOf(u) =>
                        /\ ~check(ip).blocked /\ ~check(u).blocked
                        /\ last'.db_queried /\ last'.password_verified
                        /\ attempts_of(ip)' = 0 /\ attempts_of(u)' = 0
                   /\ \E sid \in KnownSids' :
                        /\ sid = nextSid /\ sid = last'.session_id
                        /\ validate_session(sid, ip)' # None
              ELSE /\ UNCHANGED <<sessVars, tokVars>>
                   /\ attempts_of(ip)' >= attempts_of(ip)
                   /\ attempts_of(u)' >= attempts_of(u)]_vars

\* A login succeeded after failures of the same username from both addresses:
\* the counters of the username and of the login's address are back to 0, the
\* other address keeps its count.
C29_Witness ==
    /\ last.op = "login" /\ last.status = 200 /\ last.user_id = UserIdOf("alice")
    /\ attempts_of("alice") = 0 /\ attempts_of(last.ip) = 0
    /\ \E ip \in IPs : ip # last.ip /\ attempts_of(ip) = 2
    /\ validate_session(last.session_id, last.ip) # None

\* Sessions that nothing invalidates: logins, /me and the clock.
NextExpiry ==
    \/ \E t \in NextInstants : ticks < ExpTicks /\ Tick(t)
    \/ \E u \in Usernames, rm \in BOOLEAN :
          /\ nextSid <= MaxSessions /\ nextJti + 1 <= MaxTokens
          /\ secure_login(u, TRUE, ClientIP, rm)
    \/ \E sid \in SidCookies : get_current_user_secure(sid, ClientIP)

SpecExpiry == Init /\ [][NextExpiry]_vars

\* C30: the record that a login creates has expires_at = creation + 30 days
\* with remember_me and creation + 24 hours without, and the TTL of its key in
\* the shared cache is that duration; a session that nothing invalidates is
\* returned by validate_session at every instant before expires_at and at no
\* instant after it.
C30_ExpiryByRememberMe ==
    /\ (last.op = "login" /\ last.status = 200) =>
          LET data == session_get(last.session_id)
              duration == IF last.remember_me THEN 30 * 24 * 3600 ELSE 24 * 3600
          IN  /\ data # None
              /\ data.remember_me = last.remember_me
              /\ data.expires_at = now + duration
              /\ sessExp[last.session_id] = now + duration
              /\ USE_REDIS => redis_session[last.session_id].expire_at = now + duration
    /\ \A sid \in KnownSids :
          /\ now < sessExp[sid] => validate_session(sid, ClientIP) # None
          /\ now > sessExp[sid] => validate_session(sid, ClientIP) = None

\* /me was refused one second after the thirty days of a remember_me session
\* created at 0.
C30_Witness ==
    /\ last.op = "me" /\ last.status = 401 /\ last.session_id \in KnownSids
    /\ sessExp[last.session_id] = 30 * 24 * 3600
    /\ now = sessExp[last.session_id] + 1

\* Sessions under either value of strict_ip_validation: logins and /me from
\* two addresses, and the clock.
NextStrict ==
    \/ \E t \in NextInstants : ticks < StrictTicks /\ Tick(t)
    \/ \E ip \in IPs, rm \in BOOLEAN :
          /\ nextSid <= MaxSessions /\ nextJti + 1 <= MaxTokens
          /\ secure_login("alice", TRUE, ip, rm)
    \/ \E sid \in SidCookies, ip \in IPs : get_current_user_secure(sid, ip)

SpecStrict == InitStrict /\ [][NextStrict]_vars

\* C31: with strict_ip_validation on, validate_session of a live session
\* returns None from every address but the recorded one and the record from
\* the recorded one; with it off the result is the same from every address; a
\* validate_session that finds the session unexpired leaves the record as it is.
C31_IpBindingSwitch ==
    /\ [](\A sid \in KnownSids :
            LET data == session_get(sid)
            IN  /\ (strict_ip_validation /\ data # None /\ now <= data.expires_at) =>
                      \A ip \in IPs :
                          validate_session(sid, ip) = IF ip = data.ip_address THEN data ELSE None
                /\ ~strict_ip_validation =>
                      \A ip1, ip2 \in IPs : validate_session(sid, ip1) = validate_session(sid, ip2))
    /\ [][\A sid \in KnownSids :
            (last'.op = "me" /\ last'.session_id = sid /\ ~SessionExpired(sid)) =>
                session_get(sid)' = session_get(sid)]_vars

\* /me from another address was refused under strict binding; the record is
\* still there and the recorded address is still served.
C31_Witness ==
    /\ strict_ip_validation
    /\ last.op = "me" /\ last.status = 401 /\ last.session_id \in KnownSids
    /\ session_get(last.session_id) # None
    /\ validate_session(last.session_id, session_get(last.session_id).ip_address) # None

\* Concurrent calls of the limiter on the shared cache, one await at a time,
\* while keys expire.
\* The clock stops at the last second of a key's TTL and at its end.
RaceInstants ==
    {t \in NextInstants :
        \E k \in DOMAIN redis_rate :
            /\ redis_rate[k].expire_at # NoExpiry
            /\ t \in {redis_rate[k].expire_at - 1, redis_rate[k].expire_at}}

NextRaceExpiry ==
    \/ \E t \in RaceInstants : ticks < RaceTicks /\ Tick(t)
    \/ \E p \in RaceProcs, ip \in RateIPs, ty \in RaceTypes : redis_rate_limit_get(p, ip, ty)
    \/ \E p \in RaceProcs : redis_rate_limit_put(p)

SpecRaceExpiry == Init /\ [][NextRaceExpiry]_vars

C33_DenyTargetsOneToken ==
    /\ \A t1, t2 \in issued : t1.jti = t2.jti => t1 = t2
    /\ \A t \in issued : is_jti_revoked(t.jti) => \E e \in denied : e.tok = t

\* A logout that presented the access token alone: it is denied, the refresh
\* token of the same session is not.
C33_Witness ==
    /\ last.op = "logout" /\ last.status = 200
    /\ \E a, r \in issued :
          /\ a.type = "access" /\ r.type = "refresh" /\ a.session_id = r.session_id
          /\ is_jti_revoked(a.jti) /\ ~is_jti_revoked(r.jti)
          /\ \A e \in denied : e.tok # r

\* A session that was created and whose record has been removed.
Invalidated(sid) == sid \in KnownSids /\ session_get(sid) = None

\* C34: no token bound to an invalidated session is accepted by authenticate
\* or by refresh, whatever session cookie and address come with it, whether
\* or not the token is in the revocation registry.
C34_InvalidatedSessionRejectsAll ==
    /\ \A tok \in issued :
          Invalidated(tok.session_id) =>
              \A sid \in SidCookies, ip \in IPs :
                  /\ AuthOutcome(tok, sid, ip).status # 200
                  /\ RefreshOutcome(tok, sid, ip).status # 200
    /\ (last.op \in {"authenticate", "refresh"} /\ last.tok # NoToken
        /\ Invalidated(last.tok.session_id)) => last.status # 200

\* After a logout that named the session, authenticate refused an access token
\* that refresh had minted: it is unexpired and was never handed to the
\* denylist.
C34_Witness ==
    /\ last.op = "authenticate" /\ last.status = 401 /\ last.detail = "Invalid session"
    /\ last.tok.type = "access" /\ now < last.tok.exp
    /\ \A e \in denied : e.tok # last.tok
    /\ \E t \in issued : t.type = "refresh" /\ t.session_id = last.tok.session_id
                         /\ t.jti < last.tok.jti
    /\ Invalidated(last.tok.session_id)
    /\ now <= sessExp[last.tok.session_id]

\* A refresh in one worker process interleaved with a logout or a password
\* change in another, for the one session of a user who logged in once.
NextRefreshRace ==
    \/ issued = {} /\ secure_login("alice", TRUE, ClientIP, FALSE)
    \/ \E p \in RaceProcs, tok \in issued :
          /\ nextJti + Cardinality({q \in RaceProcs : rt_inflight[q] # NoToken}) <= RefreshTokens
          /\ refresh_validate(p, tok, tok.session_id, ClientIP)
    \/ \E p \in RaceProcs : refresh_issue(p)
    \/ \E tok \in issued : get_current_user_from_cookie(tok, tok.session_id, ClientIP)
    \/ \E a \in AccessCookies, r \in RefreshCookies, sid \in SidCookies : secure_logout(a, r, sid)
    \/ \E sid \in SidCookies : change_password(sid, ClientIP)

SpecRefreshRace == Init /\ [][NextRefreshRace]_vars

NextBind ==
    \/ \E u \in Usernames :
          /\ nextSid <= PwSessions /\ nextJti + 1 <= PwTokens
          /\ secure_login(u, TRUE, ClientIP, FALSE)
    \/ \E tok \in issued, sid \in KnownSids : get_current_user_from_cookie(tok, sid, ClientIP)
    \/ \E tok \in issued, sid \in KnownSids :
          /\ nextJti <= PwTokens
          /\ refresh_token(tok, sid, ClientIP)

SpecBind == Init /\ [][NextBind]_vars

\* C36: when authenticate or refresh succeeds, the user id acted for is the
\* token's sub and the user_id of the session that the token's session_id
\* names; the same token with another sub is refused; the answer does not
\* depend on which session the presented cookie names.
C36_SubjectMatchesSession ==
    /\ \A tok \in issued, sid \in KnownSids, ip \in IPs :
          LET a == AuthOutcome(tok, sid, ip)
              r == RefreshOutcome(tok, sid, ip)
              data == session_get(tok.session_id)
          IN  /\ a.status = 200 =>
                    /\ a.user_id = IntOf(tok.sub) /\ a.session_id = tok.session_id
                    /\ data # None /\ data.user_id = a.user_id
              /\ r.status = 200 => data # None /\ data.user_id = IntOf(tok.sub)
              /\ \A other \in KnownSids :
                    /\ AuthOutcome(tok, other, ip) = a
                    /\ RefreshOutcome(tok, other, ip) = r
              /\ \A u \in Usernames :
                    (data # None /\ data.user_id # UserIdOf(u)) =>
                        /\ AuthOutcome([tok EXCEPT !.sub = StrOf(UserIdOf(u))], sid, ip).status = 401
                        /\ RefreshOutcome([tok EXCEPT !.sub = StrOf(UserIdOf(u))], sid, ip).status = 401
    /\ (last.op \in {"authenticate", "refresh"} /\ last.status = 200) =>
          /\ last.user_id = IntOf(last.tok.sub)
          /\ last.session_id = last.tok.session_id

\* authenticate succeeded with a token of one user's session while the cookie
\* named the session of the other user: it acted for the token's user.
C36_Witness ==
    /\ last.op = "authenticate" /\ last.status = 200
    /\ last.cookie \in KnownSids /\ last.cookie # last.tok.session_id
    /\ session_get(last.cookie) # None
    /\ session_get(last.cookie).user_id # last.user_id
    /\ last.user_id = IntOf(last.tok.sub)

\* C37: a login that the guard refuses (429 for the address, 423 for the
\* username) changes neither store of failure counters: no count and no
\* expiry of a count moves.
C37_RefusalChangesNoCounter ==
    [][(last'.op = "login" /\ last'.status \in {423, 429}) =>
          /\ UNCHANGED <<failed_attempts, redis_attempts>>
          /\ \A id \in Identifiers : attempts_of(id)' = attempts_of(id)]_vars

\* A login was refused some time after the last recorded failure of its
\* address, whose counter still expires when it did.
C37_Witness ==
    /\ last.op = "login" /\ last.status = 429
    /\ bfLast[last.ip] >= 0 /\ now > bfLast[last.ip]
    /\ USE_REDIS /\ last.ip \in DOMAIN redis_attempts
    /\ redis_attempts[last.ip].expire_at = bfLast[last.ip] + lockout_seconds
    /\ redis_attempts[last.ip].count = max_attempts

\* Concurrent logins of one username from one address, interleaved between
\* the guard checks and the verification; no time passes, so every attempt
\* falls in one lockout window. A user logs in successfully once at most.
NextLoginRace ==
    \/ \E p \in RaceProcs, ok \in BOOLEAN :
          /\ ok => issued = {}
          /\ secure_login_checks(p, "alice", ok, ClientIP)
    \/ \E p \in RaceProcs :
          /\ lg_inflight[p].password_ok => issued = {}
          /\ secure_login_verify(p)

SpecLoginRace == Init /\ [][NextLoginRace]_vars

\* C38: whatever the interleaving of concurrent logins, no identifier has more
\* than max_attempts failed credential verifications since its last reset
\* (no window expires here: the clock stands still).
C38_AtMostMaxAttemptsVerified ==
    \A id \in Identifiers : bfCount[id] <= max_attempts

\* The two limiters called in lock step, sequentially, and the clock.
NextBoth ==
    \/ \E t \in NextInstants : ticks < RateTicks /\ Tick(t)
    \/ \E ip \in RateIPs, ty \in RateTypes :
          /\ CallsAfter(<<ty, ip>>) <= MaxCalls
          /\ rate_limit_both(ip, ty)

SpecBoth == Init /\ [][NextBoth]_vars

\* C39: after any sequence of calls and clock advances applied to both
\* limiters, the two gave the same answer to the last call, give the same
\* answer to the next call of every key, and hold the same window: a counter
\* of the shared cache that has not expired has the count of the in-process
\* counter and expires one window after its window_start.
C39_LimitersAgree ==
    /\ last.op = "allow_both" => last.allowed = last.allowed_redis
    /\ \A key \in RateKeys :
          LET config == rate_limits[key[1]]
          IN  /\ memory_rate_limit(in_memory_store, key, config.requests, config.window).allowed
                 = redis_rate_limit(redis_rate, key, config.requests, config.window).allowed
              /\ key \in DOMAIN Live(redis_rate, now) =>
                    /\ key \in DOMAIN in_memory_store
                    /\ redis_rate[key].val = in_memory_store[key].count
                    /\ redis_rate[key].expire_at = in_memory_store[key].window_start + config.window
              /\ (key \in DOMAIN in_memory_store /\ key \notin DOMAIN Live(redis_rate, now)) =>
                    now - in_memory_store[key].window_start >= config.window

\* Both limiters refused a call of a key and, one window after its first call,
\* both allowed the next one.
C39_Witness ==
    /\ last.op = "allow_both" /\ last.allowed /\ last.allowed_redis
    /\ <<last.rate_type, last.ip>> \in rlDenied
    /\ rlStart[<<last.rate_type, last.ip>>] = now
    /\ now = rate_limits[last.rate_type].window

\* Requests through the middleware: suspicious ones from one address, and from
\* either address one request per rate-limit window that is not suspicious, or
\* any number once the address is blocked. The clock stops at the instants where a recorded suspicious request
\* is about to be, or has just become, an hour old.
BlockInstants ==
    {t \in NextInstants :
        \E ip \in DOMAIN suspicious_requests : \E i \in 1..Len(suspicious_requests[ip]) :
            t \in {suspicious_requests[ip][i] + suspicious_window - 1,
                   suspicious_requests[ip][i] + suspicious_window}}
NextBlock ==
    \/ \E t \in BlockInstants : ticks < MwTicks /\ Tick(t)
    \/ \E ty \in MwTypes : dispatch(ClientIP, TRUE, ty, NoToken)
    \/ \E ip \in IPs, ty \in MwTypes :
          /\ is_ip_blocked(ip) \/ RateCount(<<ty, ip>>) = 0
          /\ dispatch(ip, FALSE, ty, NoToken)

SpecBlock == Init /\ [][NextBlock]_vars

\* The suspicious requests an address has made within the hour before now.
RecentSuspicious(ip) ==
    Cardinality({i \in 1..Len(suspLog[ip]) : now - suspLog[ip][i] < suspicious_window})

\* C40: an address enters the blocked set exactly in the step in which its
\* suspicious request brings the number of its suspicious requests of the
\* preceding hour to 5; a request of a blocked address is answered 403 without
\* reaching the handler and changes neither the suspicious-request lists nor a
\* rate-limit counter; no step takes an address out of the blocked set.
C40_AutoBlock ==
    [][/\ \A ip \in IPs :
             (ip \notin blocked_ips /\ ip \in blocked_ips') <=>
                 /\ last'.op = "dispatch" /\ last'.ip = ip /\ last'.status = 400
                 /\ RecentSuspicious(ip)' >= suspicious_threshold
       /\ (last'.op = "dispatch" /\ last'.ip \in blocked_ips) =>
             /\ last'.status = 403 /\ ~last'.handled
             /\ UNCHANGED <<in_memory_store, redis_rate, blockVars>>
       /\ blocked_ips \subseteq blocked_ips']_vars

\* A request of an address was answered 403; the address was blocked at its
\* sixth suspicious request, the first being more than an hour older than the
\* fifth, while the other address has been served.
C40_Witness ==
    /\ last.op = "dispatch" /\ last.status = 403 /\ last.ip \in blocked_ips
    /\ Len(suspLog[last.ip]) > suspicious_threshold
    /\ suspLog[last.ip][1] + suspicious_window <= suspLog[last.ip][suspicious_threshold]
    /\ \E ip \in IPs \ blocked_ips : <<"register", ip>> \in DOMAIN in_memory_store \cup DOMAIN redis_rate
====
